---------------------------- MODULE Spec2Model ----------------------------
(***************************************************************************)
(* A model of the genetic-programming engine of loadshedding_GP:           *)
(*   - the generational control model (GPControlModel.py) with its         *)
(*     survive workers, tournament selection (GPSelector.py) and the       *)
(*     shared random stream;                                               *)
(*   - the population generator (GPPopulationGenerator.py) with its two    *)
(*     locks and its worker threads, over trees built by ParseTree.random  *)
(*     (GPParseTree.py);                                                   *)
(*   - the evaluation of a tree against a fitness case, at the granularity *)
(*     of Variable.bind / Variable.eval (GPParseTree.py, GPAtom.py).       *)
(* Python threads interleave between byte codes; every action below is one *)
(* stretch of a thread between two accesses to state that is shared with   *)
(* another thread (a lock, a buffer, the random stream, a Variable atom).  *)
(***************************************************************************)
EXTENDS Integers, Sequences, FiniteSets, TLC

(***************************************************************************)
(* Bounds of the model.                                                    *)
(***************************************************************************)
\* largest population of the control model
MaxPop == 2
\* largest parallelization factor (number of survive workers / of chunks)
MaxPar == 2
\* Adjusted fitness is modelled by its rank 1..MaxFit
MaxFit == 2
\* largest iteration threshold given to a control model
MaxThreshold == 2
\* most calls to next() or evolve() the caller makes
MaxCalls == 2
\* most fitness cases bound to a control model
MaxCases == 1
\* a draw of the random stream is one of RandRes equally likely variates
RandRes == 4
\* largest size asked of PopulationGenerator.generate
MaxGenSize == 2
\* largest max_depth asked of PopulationGenerator.generate
MaxDepth == 3
\* most calls of generate made by the client threads together
MaxGenCalls == 2
\* largest value a fitness case binds to the variable
MaxVal == 2
\* most fitness cases a tree is evaluated on
MaxEvalCases == 2

VARIABLES
    \* ---- control model (GPControlModel.py) ----
    cfg,                \* the constructor arguments of the control model
    in_progress,        \* ControlModel._in_progress
    fitness_cases,      \* FitnessFunction._fitness_cases
    iteration,          \* ControlModel._iteration
    population,         \* ControlModel._population
    population_buffer,  \* ControlModel._population_buffer
    lock,               \* ControlModel._lock: 0 = free, w = held by worker w
    optimal,            \* _optimal_member and _optimal_fitness
    main,               \* the thread that calls bind_fitness_case/next/evolve
    wk,                 \* the survive worker threads of the current generation
    rng,                \* the shared stream of the module `random`
    hist,               \* history: what the calls so far did
    replay,             \* history: the run before this one, from the same seed
    \* ---- population generator (GPPopulationGenerator.py) ----
    generator,          \* the PopulationGenerator object: sets, buffer, locks
    gthreads,           \* the threads inside generate / _generate_serial
    ghist,              \* history: the calls of generate made so far, and
                        \* the thread that made each tree
    \* ---- evaluation of trees (GPParseTree.py, GPAtom.py) ----
    heap,               \* Variable._value of every Variable object
    ev,                 \* the threads evaluating a tree on the fitness cases
    \* ---- fitness-proportionate selection (GPSelector.py) ----
    fitness,            \* FitnessFunction._aggregate_adjusted and _members
    sel,                \* the threads inside Selector._select_proportionate
    \* ---- genetic operators on trees (GPGeneticOperator.py) ----
    forest,             \* the population of trees and the generator's sets
    gop                 \* the genetic operator that runs or has returned

cmVars == <<cfg, in_progress, fitness_cases, iteration, population,
            population_buffer, lock, optimal, main, wk, rng, hist, replay>>

genVars == <<generator, gthreads, ghist>>

evalVars == <<heap, ev>>

selVars == <<fitness, sel>>

treeVars == <<forest, gop>>

vars == <<cmVars, genVars, evalVars, selVars, treeVars>>

-----------------------------------------------------------------------------
(***************************************************************************)
(* Helpers on sequences.                                                   *)
(***************************************************************************)
Range(s) == {s[i] : i \in DOMAIN s}

RECURSIVE SeqSum(_)
SeqSum(s) == IF s = <<>> THEN 0 ELSE s[1] + SeqSum(Tail(s))

Max2(a, b) == IF a >= b THEN a ELSE b

\* the slice s[from+1 .. from+n] (Python s[from:from+n])
Slice(s, from, n) == [i \in 1..n |-> s[from + i]]

\* the first at most n elements of s
Take(s, n) == IF Len(s) <= n THEN s ELSE SubSeq(s, 1, n)

(***************************************************************************)
(* np.array_split(ary, n): n consecutive chunks, the first (len mod n) of  *)
(* them one element longer than the others.                                *)
(***************************************************************************)
array_split_size(len, n, i) == (len \div n) + (IF i <= len % n THEN 1 ELSE 0)

array_split_start(len, n, i) ==
    (i - 1) * (len \div n) + (IF i - 1 <= len % n THEN i - 1 ELSE len % n)

array_split(s, n) ==
    [i \in 1..n |-> Slice(s, array_split_start(Len(s), n, i),
                             array_split_size(Len(s), n, i))]

-----------------------------------------------------------------------------
(***************************************************************************)
(* The module `random`: one stream shared by every thread (the survive     *)
(* workers call random.choices, the main thread random.shuffle).  A draw   *)
(* takes the next variate of the stream; a variate v stands for the float  *)
(* v / RandRes in [0, 1).  When the stream is seeded (main.py:43) it is a  *)
(* fixed sequence: rng.stream holds the part of it revealed so far, and a  *)
(* draw at a position already revealed must return the revealed variate.   *)
(* Unseeded, every draw is free.                                           *)
(***************************************************************************)
Variates == 0..(RandRes - 1)

\* vs can be the next Len(vs) variates of the stream
stream_gives(vs) ==
    rng.seeded =>
        \A j \in 1..Len(vs) :
            rng.pos + j <= Len(rng.stream) => vs[j] = rng.stream[rng.pos + j]

\* the stream after the variates vs were drawn from it
rng_after(vs) ==
    IF ~rng.seeded THEN rng
    ELSE LET known == Len(rng.stream) - rng.pos
         IN  [rng EXCEPT !.pos = @ + Len(vs),
                         !.stream = IF known >= Len(vs) THEN @
                                    ELSE @ \o SubSeq(vs, known + 1, Len(vs))]

\* floor(random() * n): the 0-based index random.choices / randbelow pick
randbelow(n, v) == (v * n) \div RandRes

\* random.choices(items, weights=weights, k=1)[0]: bisect of random()*total
\* in the cumulative weights; the 1-based index of the item chosen
choices_weighted(weights, v) ==
    LET cum(i) == SeqSum(SubSeq(weights, 1, i))
        total  == cum(Len(weights))
    IN  1 + Cardinality({i \in 1..Len(weights) : cum(i) * RandRes <= v * total})

\* random.shuffle(x): for i = len-1 down to 1, swap x[i] with x[randbelow(i+1)]
RECURSIVE shuffle(_, _)
shuffle(x, vs) ==
    IF Len(x) <= 1 THEN x
    ELSE LET n  == Len(x)
             j  == randbelow(n, vs[1]) + 1
             sw == [x EXCEPT ![n] = x[j], ![j] = x[n]]
         IN  Append(shuffle(SubSeq(sw, 1, n - 1), Tail(vs)), sw[n])

-----------------------------------------------------------------------------
(***************************************************************************)
(* Individuals of the control model.  The control flow of the model does   *)
(* not depend on the shape of a tree, only on what the fitness function    *)
(* returns for it, so an individual is                                     *)
(*     [id  |-> the identity of the ParseTree object,                      *)
(*      fit |-> the rank of its Adjusted fitness over the bound cases,     *)
(*              0 when evaluating the tree on a case raises].              *)
(* Identities are <<w, k>>: the k-th offspring built by worker w, or       *)
(* <<0, k>> for the k-th tree of the initial population.                   *)
(***************************************************************************)
Fits == 0..MaxFit

\* the two classes the control model tells apart where the order of the
\* fitness values plays no part: trees that raise and trees that evaluate
Classes == {0, MaxFit}

Individual(w, k, f) == [id |-> <<w, k>>, fit |-> f]

\* ParseTree.copy as the control model sees it: a new object, same fitness
copy_as(ind, w, k) == Individual(w, k, ind.fit)

\* FitnessFunction._eval raises: only a bound case evaluates the tree
eval_raises(ind, cases) == Len(cases) > 0 /\ ind.fit = 0

\* FitnessFunction._adjusted_fitness: 1 / (1 + standardized); with no case
\* bound the aggregate of no error is 0 and the measure is 1, the maximum
adjusted_fitness(ind, cases) == IF Len(cases) = 0 THEN MaxFit ELSE ind.fit

\* np.argmax: the first index of the maximum
argmax(fs) ==
    CHOOSE i \in DOMAIN fs :
        /\ \A j \in DOMAIN fs : fs[j] <= fs[i]
        /\ \A j \in DOMAIN fs : j < i => fs[j] < fs[i]

(***************************************************************************)
(* Selector._select_tournament.  A proportion is <<num, den>>.             *)
(***************************************************************************)
valid_proportion(p) == 0 < p[1] /\ p[1] <= p[2]

\* nt = ceil(proportion * len(population))
tournament_size(p, n) == (p[1] * n + p[2] - 1) \div p[2]

\* _select_tournament(population, proportion) when random.choices(population,
\* k=nt) picks the members at the (1-based) indices idx: the exception
\* raised, or the first member of best Adjusted fitness of the subpopulation
select_tournament(pop, p, idx, cases) ==
    LET sp == [j \in 1..Len(idx) |-> pop[idx[j]]]
    IN  IF \E j \in 1..Len(sp) : eval_raises(sp[j], cases)
        THEN [err |-> "EvaluationError", ind |-> pop[1]]
        ELSE [err |-> "none",
              ind |-> sp[argmax([j \in 1..Len(sp) |->
                                    adjusted_fitness(sp[j], cases)])]]

\* every result Selector.select(pop) can have
select_results(pop, p, cases) ==
    IF ~valid_proportion(p)
    THEN {[err |-> "InvalidTournamentProportionException", ind |-> pop[1]]}
    ELSE {select_tournament(pop, p, idx, cases) :
              idx \in [1..tournament_size(p, Len(pop)) -> 1..Len(pop)]}

-----------------------------------------------------------------------------
(***************************************************************************)
(* GeneticOperatorSet, as the control model sees it: the results one call  *)
(* operate(population, operator) of worker w can have when the worker has  *)
(* built k offspring so far.  A result is the exception raised or the      *)
(* tuple of offspring.  The trees are not part of this model: an offspring *)
(* that is not a plain copy can have any fitness.                          *)
(***************************************************************************)
Raised(e) == [err |-> e, children |-> <<>>]

Returned(children) == [err |-> "none", children |-> children]

\* reproduce: (select(population).copy(),)
reproduce(pop, p, cases, w, k) ==
    {IF r.err # "none" THEN Raised(r.err)
     ELSE Returned(<<copy_as(r.ind, w, k + 1)>>) :
        r \in select_results(pop, p, cases)}

\* mutation: a clone of the selected parent with a random node replaced by a
\* generated subtree
mutation(pop, p, cases, w, k) ==
    UNION {IF r.err # "none" THEN {Raised(r.err)}
           ELSE {Returned(<<Individual(w, k + 1, f)>>) : f \in Classes} :
              r \in select_results(pop, p, cases)}

\* crossover: attempts that select two parents and swap two subtrees of their
\* clones, returned when neither child is too deep; after the last attempt
\* d1 = reproduce(population)[0], d2 = d1.copy()
crossover(pop, p, cases, w, k) ==
    LET rs  == select_results(pop, p, cases)
        oks == {r \in rs : r.err = "none"}
    IN  {Raised(r.err) : r \in rs \ oks}
        \cup (IF oks = {} THEN {}
              ELSE {Returned(<<Individual(w, k + 1, f1), Individual(w, k + 2, f2)>>) :
                        f1 \in Classes, f2 \in Classes})
        \cup {Returned(<<copy_as(r.ind, w, k + 1), copy_as(r.ind, w, k + 2)>>) :
                  r \in oks}

\* operate: self._operator_index[operator.value](population)
operate(pop, operator, p, cases, w, k) ==
    CASE operator = "REPRODUCTION" -> reproduce(pop, p, cases, w, k)
      [] operator = "CROSSOVER"    -> crossover(pop, p, cases, w, k)
      [] operator = "MUTATION"     -> mutation(pop, p, cases, w, k)

-----------------------------------------------------------------------------
(***************************************************************************)
(* The control model: ControlModel and GenerationalControlModel.           *)
(***************************************************************************)
Workers == 1..MaxPar

\* the operator kinds a weight table may name, in the order of default_set
OpKinds == <<"REPRODUCTION", "CROSSOVER", "MUTATION">>

\* GeneticOperatorSet.default_set: every kind with weight 1.  A table that
\* gives some kind the weight 0 only removes choices of the workers.
DefaultWeights == [i \in 1..Len(OpKinds) |-> 1]

IdleWorker ==
    [pc |-> "idle", sub |-> <<>>, new |-> <<>>, op |-> "none",
     drawn |-> <<>>, parents |-> <<>>, err |-> "none"]

IdleMain == [pc |-> "idle", call |-> "none", last |-> "none",
             raised |-> "none", ret |-> "none"]

NoOptimal == [member |-> Individual(0, 0, 0), fitness |-> 0, set |-> FALSE]

NoHistory == [calls |-> 0, binds |-> 0, frozen |-> <<>>, before |-> 0,
              evaluated |-> FALSE, evals |-> <<>>, conv |-> 0]

\* a predicate that holds of no fitness
never_converged(f) == FALSE

\* explicit_convergence_condition(optimal_fitness): the caller's predicate,
\* here "the optimal fitness has reached cfg.converge_at"
explicit_convergence_condition(f) == f >= cfg.converge_at

(***************************************************************************)
(* ControlModel.__init__: the state after construction, for every          *)
(* configuration within the bounds.  The initial population is what the    *)
(* generator returned: population_size trees of any fitness.               *)
(***************************************************************************)
CMConfigs(proportions) ==
    [population_size          : 1..MaxPop,
     parallelization          : 1..MaxPar,
     selection_proportion     : proportions,
     genetic_operators        : {OpKinds},
     genetic_operator_weights : {DefaultWeights},
     iteration_threshold      : 1..MaxThreshold,
     converge_at              : {MaxFit, MaxFit + 1}]

InitialPopulations(n, fits) ==
    {[i \in 1..n |-> Individual(0, i, fs[i])] : fs \in [1..n -> fits]}

CMInitWith(c, pop, cases, seeded) ==
    /\ cfg = c
    /\ in_progress = FALSE
    /\ fitness_cases = cases
    /\ iteration = 0
    /\ population = pop
    /\ population_buffer = <<>>
    /\ lock = 0
    /\ optimal = NoOptimal
    /\ main = IdleMain
    /\ wk = [w \in Workers |-> IdleWorker]
    /\ rng = [seeded |-> seeded, pos |-> 0, stream |-> <<>>]
    /\ hist = [NoHistory EXCEPT !.binds = Len(cases)]
    /\ replay = [run |-> 1, first |-> <<>>, start |-> IF seeded THEN pop ELSE <<>>]

CMInit ==
    \E c \in CMConfigs({<<0, 1>>, <<1, 1>>}) : \E pop \in InitialPopulations(c.population_size, Classes) :
        CMInitWith(c, pop, <<>>, FALSE)

(***************************************************************************)
(* bind_fitness_case(target, **kwargs)                                     *)
(***************************************************************************)
\* bind_fitness_case without the test of _in_progress
bind_case_unchecked(case) ==
    /\ Len(fitness_cases) < MaxCases
    /\ fitness_cases' = Append(fitness_cases, case)
    /\ main' = [main EXCEPT !.last = "bind", !.raised = "none"]
    /\ hist' = [hist EXCEPT !.binds = @ + 1]

bind_case(case) ==
    IF ~in_progress
    THEN /\ Len(fitness_cases) < MaxCases
         /\ fitness_cases' = Append(fitness_cases, case)
         /\ main' = [main EXCEPT !.last = "bind", !.raised = "none"]
         /\ hist' = [hist EXCEPT !.binds = @ + 1]
    ELSE /\ fitness_cases' = fitness_cases
         /\ main' = [main EXCEPT !.last = "bind",
                                 !.raised = "InvalidOperationStateException"]
         /\ hist' = hist

bind_fitness_case ==
    /\ main.pc = "idle"
    /\ bind_case("case")
    /\ UNCHANGED <<genVars, evalVars, selVars, treeVars, cfg, in_progress, iteration, population, population_buffer,
                   lock, optimal, wk, rng, replay>>

(***************************************************************************)
(* next(), up to the join of _survive: set the flag, shuffle, split the    *)
(* population and start one worker per chunk.                              *)
(***************************************************************************)
next_begin(call) ==
    /\ in_progress' = TRUE
    /\ \E vs \in [1..(Len(population) - 1) -> Variates] :
          /\ stream_gives(vs)
          /\ rng' = rng_after(vs)
          /\ LET shuffled == shuffle(population, vs)
                 chunks   == array_split(shuffled, cfg.parallelization)
             IN  /\ population' = shuffled
                 /\ wk' = [w \in Workers |->
                             IF w <= cfg.parallelization
                             THEN [IdleWorker EXCEPT !.pc = "loop", !.sub = chunks[w]]
                             ELSE IdleWorker]
    /\ main' = [main EXCEPT !.pc = "join", !.call = call, !.last = call,
                            !.raised = "none", !.ret = "none"]
    /\ hist' = [hist EXCEPT !.calls = @ + 1,
                            !.frozen = IF hist.calls = 0 THEN fitness_cases ELSE @,
                            !.before = Len(population),
                            !.evaluated = FALSE]
    /\ UNCHANGED <<genVars, evalVars, selVars, treeVars, cfg, fitness_cases, iteration, population_buffer, lock,
                   optimal, replay>>

next ==
    /\ main.pc = "idle"
    /\ hist.calls < MaxCalls
    /\ ~rng.seeded
    /\ next_begin("next")

evolve ==
    /\ main.pc = "idle"
    /\ hist.calls < MaxCalls
    /\ ~rng.seeded
    /\ next_begin("evolve")

\* evolve(): next() returned True, the while loop calls it again
evolve_again ==
    /\ main.pc = "loop"
    /\ next_begin("evolve")

(***************************************************************************)
(* _concurrent_survive(sub_population), the body of a survive worker.      *)
(* A worker is at                                                          *)
(*   "loop"   the test of `while len(new_population) < len(sub_population)`*)
(*   "locked" inside `with self._lock`                                     *)
(*   "done"   returned;  "dead"  ended by an exception.                    *)
(* An exception that leaves the target of a threading.Thread ends that     *)
(* thread only: it is not raised in the thread that joins it.              *)
(***************************************************************************)
die(w, e) == wk' = [wk EXCEPT ![w] = [IdleWorker EXCEPT !.pc = "dead", !.err = e]]

\* the loop over new_subset without its break at the quota
append_children_unbounded(new, children, quota) == new \o children

\* `for child in new_subset: if len(new) >= len(sub): break; new.append(child)`
append_children(new, children, quota) ==
    new \o Take(children, Max2(quota - Len(new), 0))

\* one iteration of the while loop: an operator of positive weight is chosen
\* and applied to the chunk, its offspring are appended up to the quota.
\* Unseeded, the draws of an iteration depend on no other thread, so the
\* iteration is one step.
survive_iteration ==
    \E w \in Workers :
        LET me == wk[w]
        IN  /\ me.pc = "loop"
            /\ Len(me.new) < Len(me.sub)
            /\ ~rng.seeded
            /\ \E i \in 1..Len(cfg.genetic_operators) :
                  /\ cfg.genetic_operator_weights[i] > 0
                  /\ \E r \in operate(me.sub, cfg.genetic_operators[i],
                                      cfg.selection_proportion, fitness_cases,
                                      w, Len(me.new)) :
                        IF r.err # "none" THEN die(w, r.err)
                        ELSE wk' = [wk EXCEPT ![w].new =
                                 append_children(me.new, r.children, Len(me.sub))]
            /\ UNCHANGED <<genVars, evalVars, selVars, treeVars, cfg, in_progress, fitness_cases, iteration, population,
                           population_buffer, lock, optimal, main, rng, hist, replay>>

\* `with self._lock:` entered once the quota is filled
acquire ==
    \E w \in Workers :
        /\ wk[w].pc = "loop"
        /\ Len(wk[w].new) >= Len(wk[w].sub)
        /\ lock = 0
        /\ lock' = w
        /\ wk' = [wk EXCEPT ![w].pc = "locked"]
        /\ UNCHANGED <<genVars, evalVars, selVars, treeVars, cfg, in_progress, fitness_cases, iteration, population,
                       population_buffer, optimal, main, rng, hist, replay>>

\* `self._population_buffer += new_population`, and the lock is released
append_buffer ==
    \E w \in Workers :
        /\ wk[w].pc = "locked"
        /\ population_buffer' = population_buffer \o wk[w].new
        /\ lock' = 0
        /\ wk' = [wk EXCEPT ![w] = [IdleWorker EXCEPT !.pc = "done",
                                                        !.new = wk[w].new]]
        /\ UNCHANGED <<genVars, evalVars, selVars, treeVars, cfg, in_progress, fitness_cases, iteration, population,
                       optimal, main, rng, hist, replay>>

(***************************************************************************)
(* next(), from the join of _survive to its return: the buffer becomes the *)
(* population, _evaluate ranks it, the evaluation callback is called and   *)
(* _converged decides whether evolution goes on.  This runs in the calling *)
(* thread alone, so an exception of _evaluate does reach the caller.       *)
(***************************************************************************)
\* _survive without its loop of thread.join()
workers_not_joined == TRUE

\* `for thread in threads: thread.join()` has come to its end
workers_joined ==
    \A w \in 1..cfg.parallelization : wk[w].pc \in {"done", "dead"}

\* the call ends by raising e in its caller
raise_to_caller(e) ==
    /\ main' = [main EXCEPT !.pc = "idle", !.call = "none", !.raised = e]
    /\ UNCHANGED <<iteration, optimal>>

\* Node.eval binds a Variable only when a fitness case is evaluated: with no
\* case bound a member that holds a Variable holds it without a value
unbound_member(cases) == Len(cases) = 0

\* _simplify: the optimal member is replaced by the clone Editing returns, a
\* new object that evaluates as the member does
simplified(member) == copy_as(member, 0, 0)

next_finish ==
    /\ main.pc = "join"
    /\ workers_joined
    /\ population' = population_buffer
    /\ population_buffer' = <<>>
    /\ LET pop == population_buffer
           fs  == [i \in 1..Len(pop) |-> adjusted_fitness(pop[i], fitness_cases)]
       IN  IF \E i \in 1..Len(pop) : eval_raises(pop[i], fitness_cases)
           THEN \* predefine_aggregate evaluates every individual
                /\ raise_to_caller("EvaluationError")
                /\ hist' = [hist EXCEPT !.evaluated = TRUE]
           ELSE IF pop = <<>>
           THEN \* argmax of an empty sequence
                /\ raise_to_caller("ValueError")
                /\ hist' = [hist EXCEPT !.evaluated = TRUE]
           ELSE LET member == pop[argmax(fs)]
                    fit    == adjusted_fitness(member, fitness_cases)
                    met    == \/ iteration + 1 >= cfg.iteration_threshold
                              \/ explicit_convergence_condition(fit)
                IN  /\ iteration' = iteration + 1
                    /\ \/ /\ optimal' = [member  |-> IF met
                                                      THEN simplified(member)
                                                      ELSE member,
                                          fitness |-> fit, set |-> TRUE]
                          /\ hist' = [hist EXCEPT
                                 !.evaluated = TRUE,
                                 !.evals = Append(@, iteration),
                                 !.conv = IF met THEN @ + 1 ELSE @]
                          /\ main' = IF main.call = "evolve" /\ ~met
                                     THEN [main EXCEPT !.pc = "loop"]
                                     ELSE [main EXCEPT
                                             !.pc = "idle", !.call = "none",
                                             !.ret = IF main.call = "evolve"
                                                     THEN "optimal"
                                                     ELSE IF met THEN "False"
                                                     ELSE "True"]
                       \/ \* _simplify starts with str(optimal_member): no
                          \* case was evaluated, a Variable of the member
                          \* has no value and its symbolic form raises
                          /\ met /\ unbound_member(fitness_cases)
                          /\ optimal' = [member |-> member, fitness |-> fit,
                                         set |-> TRUE]
                          /\ hist' = [hist EXCEPT
                                 !.evaluated = TRUE,
                                 !.evals = Append(@, iteration)]
                          /\ main' = [main EXCEPT
                                 !.pc = "idle", !.call = "none",
                                 !.raised = "InvalidVariableBindingException"]
    /\ UNCHANGED <<genVars, evalVars, selVars, treeVars, cfg, in_progress, fitness_cases, lock, wk, rng, replay>>

CMNext ==
    \/ bind_fitness_case
    \/ next
    \/ evolve
    \/ evolve_again
    \/ survive_iteration
    \/ acquire
    \/ append_buffer
    \/ next_finish

-----------------------------------------------------------------------------
(***************************************************************************)
(* The survive phase over a seeded stream.  Every draw of a worker takes   *)
(* the next variate of the one stream, so the workers are followed draw by *)
(* draw: a worker is, besides the places above, at                         *)
(*   "select" inside Selector.select, drawing the tournament               *)
(*   "apply"  inside the genetic operator, the parent selected.            *)
(* The weight table is [(REPRODUCTION, 1)], for which the offspring is a   *)
(* function of the draws.  A run is one call of next() on a new model; the *)
(* second run starts from the seed and the population of the first.        *)
(***************************************************************************)
ReproductionOnly == [i \in 1..Len(OpKinds) |-> IF i = 1 THEN 1 ELSE 0]

SeededConfigs ==
    {c \in CMConfigs({<<1, 2>>, <<1, 1>>}) :
        /\ c.population_size > 1
        /\ c.iteration_threshold > 1
        /\ c.converge_at > MaxFit}

SeededInit ==
    \E c \in SeededConfigs :
        \E pop \in InitialPopulations(c.population_size, 1..MaxFit) :
            CMInitWith([c EXCEPT !.genetic_operator_weights = ReproductionOnly],
                       pop, <<"case">>, TRUE)

first_next ==
    /\ main.pc = "idle"
    /\ hist.calls = 0
    /\ rng.seeded
    /\ next_begin("next")

\* random.choices(self._genetic_operators, weights=..., k=1)[0]
draw_operator ==
    \E w \in Workers, v \in Variates :
        /\ wk[w].pc = "loop"
        /\ Len(wk[w].new) < Len(wk[w].sub)
        /\ rng.seeded
        /\ stream_gives(<<v>>)
        /\ rng' = rng_after(<<v>>)
        /\ wk' = [wk EXCEPT
              ![w].pc = "select",
              ![w].op = cfg.genetic_operators[
                            choices_weighted(cfg.genetic_operator_weights, v)],
              ![w].drawn = <<>>, ![w].parents = <<>>]
        /\ UNCHANGED <<genVars, evalVars, selVars, treeVars, cfg, in_progress, fitness_cases, iteration, population,
                       population_buffer, lock, optimal, main, hist, replay>>

\* one draw of random.choices(population, k=nt) in _select_tournament; after
\* the last one the subpopulation is evaluated and its best member returned
draw_tournament ==
    \E w \in Workers, v \in Variates :
        LET me    == wk[w]
            nt    == tournament_size(cfg.selection_proportion, Len(me.sub))
            drawn == Append(me.drawn, randbelow(Len(me.sub), v) + 1)
            r     == select_tournament(me.sub, cfg.selection_proportion, drawn,
                                       fitness_cases)
        IN  /\ me.pc = "select"
            /\ stream_gives(<<v>>)
            /\ rng' = rng_after(<<v>>)
            /\ IF Len(drawn) < nt THEN wk' = [wk EXCEPT ![w].drawn = drawn]
               ELSE IF r.err # "none" THEN die(w, r.err)
               ELSE wk' = [wk EXCEPT ![w].pc = "apply", ![w].drawn = <<>>,
                                     ![w].parents = <<r.ind>>]
            /\ UNCHANGED <<genVars, evalVars, selVars, treeVars, cfg, in_progress, fitness_cases, iteration, population,
                           population_buffer, lock, optimal, main, hist, replay>>

\* reproduce: the copy of the selected parent is the offspring
reproduce_selected ==
    \E w \in Workers :
        LET me == wk[w]
        IN  /\ me.pc = "apply"
            /\ me.op = "REPRODUCTION"
            /\ wk' = [wk EXCEPT
                   ![w].pc = "loop", ![w].parents = <<>>,
                   ![w].new = append_children(me.new,
                                  <<copy_as(me.parents[1], w, Len(me.new) + 1)>>,
                                  Len(me.sub))]
            /\ UNCHANGED <<genVars, evalVars, selVars, treeVars, cfg, in_progress, fitness_cases, iteration, population,
                           population_buffer, lock, optimal, main, rng, hist, replay>>

\* the first run is over: a second model is built from the same arguments,
\* seed, initial population and fitness cases
rerun ==
    /\ main.pc = "idle"
    /\ hist.calls = 1
    /\ replay.run = 1
    /\ replay' = [replay EXCEPT !.run = 2, !.first = population]
    /\ in_progress' = FALSE
    /\ iteration' = 0
    /\ population' = replay.start
    /\ optimal' = NoOptimal
    /\ main' = IdleMain
    /\ wk' = [w \in Workers |-> IdleWorker]
    /\ rng' = [rng EXCEPT !.pos = 0]
    /\ hist' = [NoHistory EXCEPT !.binds = Len(fitness_cases)]
    /\ UNCHANGED <<genVars, evalVars, selVars, treeVars, cfg, fitness_cases, population_buffer, lock>>

SeededNext ==
    \/ first_next
    \/ draw_operator
    \/ draw_tournament
    \/ reproduce_selected
    \/ acquire
    \/ append_buffer
    \/ next_finish
    \/ rerun

-----------------------------------------------------------------------------
(***************************************************************************)
(* Parse trees (GPParseTree.py) over the atoms of GPAtom.py.  A node is    *)
(* [atom, obj, children]: obj names the Variable object of a leaf, since   *)
(* Atom.instance() of a Variable returns the object of the terminal set    *)
(* itself, and Variable.copy() a new object.  Object 0 is the Variable of  *)
(* the terminal set.                                                       *)
(***************************************************************************)
\* Operator.arity(): the number of parameters of the operator's function
arity(atom) ==
    CASE atom = "neg" -> 1
      [] atom = "add" -> 2
      [] OTHER        -> 0

Node(atom, obj, children) == [atom |-> atom, obj |-> obj, children |-> children]

RECURSIVE get_depth(_)
\* Node.get_depth: 1 for a terminal, else 1 + the depth of the deepest child
get_depth(node) ==
    IF arity(node.atom) = 0 THEN 1
    ELSE LET ds == {get_depth(node.children[i]) : i \in DOMAIN node.children}
         IN  1 + (CHOOSE d \in ds : \A e \in ds : e <= d)

RECURSIVE fill_level(_, _, _)
\* ParseTree._fill_level, seen from the child: the subtrees that may be hung
\* below a node when rem_levels levels remain.  The weights (fair or
\* natural) are all positive, so every option can be drawn.
fill_level(rem_levels, terminal_set, operator_set) ==
    LET leaves == {Node(t, 0, <<>>) : t \in Range(terminal_set)}
    IN  IF rem_levels < 2 THEN leaves
        ELSE leaves \cup
             UNION {{Node(o, 0, cs) :
                        cs \in [1..arity(o) ->
                                  fill_level(rem_levels - 1, terminal_set,
                                             operator_set)]} :
                    o \in Range(operator_set)}

\* a root drawn from the terminals and the operators alike
random_trees_any_root(max_depth, terminal_set, operator_set) ==
    fill_level(max_depth, terminal_set, operator_set)

\* ParseTree.random: the trees it may return; the root is an operator when
\* max_depth > 1 and a terminal otherwise
random_trees(max_depth, terminal_set, operator_set) ==
    IF max_depth > 1
    THEN UNION {{Node(o, 0, cs) :
                    cs \in [1..arity(o) ->
                              fill_level(max_depth - 1, terminal_set,
                                         operator_set)]} :
                o \in Range(operator_set)}
    ELSE {Node(t, 0, <<>>) : t \in Range(terminal_set)}

-----------------------------------------------------------------------------
(***************************************************************************)
(* The population generator: PopulationGenerator.generate and              *)
(* _generate_serial.  The program calls generate from one thread at a time *)
(* with any arguments (ControlModel.__init__, or a caller of the class),   *)
(* and from the survive workers at the same time through mutation, which   *)
(* asks for one tree by GROW.  The client threads stand for these callers. *)
(* A thread is a client, or the worker that the generate call of another   *)
(* thread has started: generate starts and joins its workers one after the *)
(* other, so a call has at most one live worker.                           *)
(***************************************************************************)
GenClients == {1, 2}

\* the worker started by the generate call of thread t; the chain ends with
\* the workers of the workers of the clients
child(t) == t + Cardinality(GenClients)

GenThreads == 1..(3 * Cardinality(GenClients))

Methods == {"GROW", "FULL", "RAMPED"}

\* the frame of a call of generate
IdleCall ==
    [pc |-> "idle", by |-> "none", size |-> 0, max_depth |-> 0,
     method |-> "none", force_trivial |-> FALSE, population_split |-> <<>>,
     threads |-> <<>>, started |-> 0, new_pop |-> <<>>]

NoQuota == [n_divisions |-> 0, n_local |-> 0, n_half |-> 0, n_res_level |-> 0,
            n_res |-> 0]

\* the frame of a call of _generate_serial
IdleSerial ==
    [pc |-> "idle", size |-> 0, max_depth |-> 0, method |-> "none",
     force_trivial |-> FALSE, population |-> <<>>, err |-> "none",
     quota |-> NoQuota, requests |-> <<>>, made |-> 0]

IdleThread == [call |-> IdleCall, serial |-> IdleSerial]

\* the arguments a client passes; force_trivial only matters below depth 2
GenArgs ==
    {a \in [size : 0..MaxGenSize, max_depth : 1..MaxDepth, method : Methods,
            force_trivial : BOOLEAN] : a.force_trivial => a.max_depth < 2}

\* no call made; makers names, tree by tree, the worker that put each tree
\* of the buffer there, and given those of the trees a client was returned
NoGenHistory ==
    [calls |-> 0, makers |-> <<>>, given |-> [c \in GenClients |-> <<>>]]

\* PopulationGenerator.__init__
GenInit ==
    /\ \E ops \in {<<"neg">>, <<"add">>}, par \in 1..MaxPar :
          generator = [terminal_set |-> <<"x">>, operator_set |-> ops,
                       parallelization |-> par, population_buffer |-> <<>>,
                       serial_lock |-> 0, generating_lock |-> 0]
    /\ gthreads = [t \in GenThreads |-> IdleThread]
    /\ ghist = NoGenHistory

\* [sum(p) for p in np.array_split([1 for _ in range(size)], parallelization)]
population_split(size, n) ==
    [i \in 1..n |-> array_split_size(Max2(size, 0), n, i)]

\* the thread list: `if sub_pop_range == 0: continue`
nonzero(x) == x # 0

\* RAMPED: the numbers computed from size and max_depth
ramped_quota(size, max_depth) ==
    LET n_divisions == max_depth - 1
        n_local     == size \div n_divisions
        n_half      == n_local \div 2
    IN  [n_divisions |-> n_divisions, n_local |-> n_local, n_half |-> n_half,
         n_res_level |-> n_local - n_half,
         n_res       |-> size - n_local * n_divisions]

Request(n, depth, method, role) ==
    [size |-> n, max_depth |-> depth, method |-> method, role |-> role]

\* the calls of self.generate made for one depth stratum
level_requests(q, depth, rem_method) ==
    IF q.n_local > 0
    THEN (IF q.n_half > 0
          THEN <<Request(q.n_half, depth, "FULL", "full"),
                 Request(q.n_half, depth, "GROW", "grow")>>
          ELSE <<>>)
         \o (IF q.n_res_level > 0
             THEN <<Request(q.n_res_level, depth, rem_method, "rem")>>
             ELSE <<>>)
    ELSE <<>>

RECURSIVE Flatten(_)
Flatten(ss) == IF ss = <<>> THEN <<>> ELSE Head(ss) \o Flatten(Tail(ss))

\* the calls of self.generate of the RAMPED branch, in order, for the outcome
\* rem_methods of random.choice per stratum and residue_strata of
\* random.sample(depth_strata, n_res); the draws depend on no result
ramped_requests(q, rem_methods, residue_strata) ==
    Flatten([i \in 1..q.n_divisions |->
                 level_requests(q, i + 1, rem_methods[i])])
    \o [j \in 1..Len(residue_strata) |->
            Request(1, residue_strata[j], "FULL", "residue")]

\* random.sample(depth_strata, k): k distinct strata in any order
samples(n_divisions, k) ==
    {s \in [1..k -> 2..(n_divisions + 1)] :
        \A i, j \in 1..k : i # j => s[i] # s[j]}

\* FULL without the test of the depth: every member is kept
full_keeps_any(member, max_depth) == TRUE

\* FULL keeps a member only if `new_member.get_depth() == max_depth`
full_keeps(member, max_depth) == get_depth(member) = max_depth

(***************************************************************************)
(* generate(size, max_depth, method, force_trivial).  A call is at         *)
(*   "lock"     before `with self._generating_lock`                        *)
(*   "start"    in the loop `for thread in threads`, about to start one    *)
(*   "join"     in thread.join()                                           *)
(*   "returned" returned new_pop to its caller.                            *)
(***************************************************************************)
generate_call(c, by, a) ==
    /\ gthreads[c].call.pc = "idle"
    /\ ghist.calls < MaxGenCalls
    /\ gthreads' = [gthreads EXCEPT ![c].call =
           [IdleCall EXCEPT !.pc = "lock", !.by = by, !.size = a.size,
                            !.max_depth = a.max_depth, !.method = a.method,
                            !.force_trivial = a.force_trivial]]
    /\ ghist' = [ghist EXCEPT !.calls = @ + 1]
    /\ UNCHANGED <<cmVars, evalVars, selVars, treeVars, generator>>

\* a call with any arguments, while no other client is inside generate
generate ==
    \E c \in GenClients, a \in GenArgs :
        /\ \A d \in GenClients : gthreads[d].call.pc = "idle"
        /\ generate_call(c, "caller", a)

\* GeneticOperatorSet.mutation in a survive worker:
\* self._generator.generate(1, subtree_max_depth, force_trivial=trivial)
mutation_generate ==
    \E c \in GenClients, subtree_max_depth \in 1..MaxDepth :
        /\ \A d \in GenClients :
              gthreads[d].call.pc = "idle" \/ gthreads[d].call.by = "mutation"
        /\ generate_call(c, "mutation",
                         [size |-> 1, max_depth |-> subtree_max_depth,
                          method |-> "GROW",
                          force_trivial |-> subtree_max_depth < 2])

\* generate without `with self._generating_lock`: the call goes on whoever
\* is inside
enter_generating_unlocked ==
    \E t \in GenThreads :
        LET split == population_split(gthreads[t].call.size,
                                      generator.parallelization)
        IN  /\ gthreads[t].call.pc = "lock"
            /\ generator' = [generator EXCEPT !.generating_lock = t]
            /\ gthreads' = [gthreads EXCEPT
                   ![t].call.pc = "start",
                   ![t].call.population_split = split,
                   ![t].call.threads = SelectSeq(split, nonzero)]
            /\ UNCHANGED <<cmVars, evalVars, selVars, treeVars, ghist>>

\* the lock is taken, the chunk sizes and the list of threads are computed
enter_generating ==
    \E t \in GenThreads :
        LET split == population_split(gthreads[t].call.size,
                                      generator.parallelization)
        IN  /\ gthreads[t].call.pc = "lock"
            /\ generator.generating_lock = 0
            /\ generator' = [generator EXCEPT !.generating_lock = t]
            /\ gthreads' = [gthreads EXCEPT
                   ![t].call.pc = "start",
                   ![t].call.population_split = split,
                   ![t].call.threads = SelectSeq(split, nonzero)]
            /\ UNCHANGED <<cmVars, evalVars, selVars, treeVars, ghist>>

\* thread.start(): the worker enters _generate_serial with its chunk size
start_thread ==
    \E t \in GenThreads :
        LET call == gthreads[t].call
        IN  /\ call.pc = "start"
            /\ call.started < Len(call.threads)
            /\ child(t) \in GenThreads
            /\ gthreads' = [gthreads EXCEPT
                   ![t].call.pc = "join",
                   ![t].call.started = @ + 1,
                   ![child(t)].serial =
                       [IdleSerial EXCEPT
                          !.pc = "check",
                          !.size = call.threads[call.started + 1],
                          !.max_depth = call.max_depth,
                          !.method = call.method,
                          !.force_trivial = call.force_trivial]]
            /\ UNCHANGED <<cmVars, evalVars, selVars, treeVars, generator, ghist>>

\* thread.join(): returns when the worker has returned or died
join_thread ==
    \E t \in GenThreads :
        /\ gthreads[t].call.pc = "join"
        /\ gthreads[child(t)].serial.pc \in {"done", "dead"}
        /\ gthreads' = [gthreads EXCEPT ![t].call.pc = "start",
                                        ![child(t)].serial = IdleSerial]
        /\ UNCHANGED <<cmVars, evalVars, selVars, treeVars, generator, ghist>>

\* new_pop = buffer; the buffer is cleared; the lock is released on return.
\* A client keeps new_pop; the RAMPED branch of a worker adds it to its
\* population and goes on to its next request.
return_generate ==
    \E t \in GenThreads :
        LET call == gthreads[t].call
        IN  /\ call.pc = "start"
            /\ call.started = Len(call.threads)
            /\ generator' = [generator EXCEPT !.population_buffer = <<>>,
                                              !.generating_lock = 0]
            /\ gthreads' =
                 IF t \in GenClients
                 THEN [gthreads EXCEPT
                         ![t].call.pc = "returned",
                         ![t].call.new_pop = generator.population_buffer]
                 ELSE [gthreads EXCEPT
                         ![t].call = IdleCall,
                         ![t].serial.pc = "ramped",
                         ![t].serial.made = @ + 1,
                         ![t].serial.population =
                             @ \o generator.population_buffer]
            /\ ghist' =
                 IF t \in GenClients
                 THEN [ghist EXCEPT !.makers = <<>>, !.given[t] = ghist.makers]
                 ELSE [ghist EXCEPT !.makers = <<>>]
            /\ UNCHANGED <<cmVars, evalVars, selVars, treeVars>>

\* the caller goes on with the population it was returned
take_result ==
    \E c \in GenClients :
        /\ gthreads[c].call.pc = "returned"
        /\ gthreads' = [gthreads EXCEPT ![c].call = IdleCall]
        /\ ghist' = [ghist EXCEPT !.given[c] = <<>>]
        /\ UNCHANGED <<cmVars, evalVars, selVars, treeVars, generator>>

(***************************************************************************)
(* _generate_serial(size, max_depth, method, force_trivial), the body of a *)
(* generation worker.  It is at                                            *)
(*   "check"   the safety checks on its arguments                          *)
(*   "grow", "full"  in the loop of that branch                            *)
(*   "ramped"  in the RAMPED branch, between two calls of self.generate    *)
(*   "nested"  inside a call of self.generate                              *)
(*   "serial"  before `with self._serial_lock`, "locked" inside it         *)
(*   "done"    returned;  "dead"  ended by an exception, which stays in    *)
(*             the worker thread.                                          *)
(***************************************************************************)
gen_die(t, e) ==
    gthreads' = [gthreads EXCEPT ![t].serial =
                    [IdleSerial EXCEPT !.pc = "dead", !.err = e]]

serial_checks ==
    \E t \in GenThreads :
        LET me == gthreads[t].serial
            q  == ramped_quota(me.size, me.max_depth)
        IN  /\ me.pc = "check"
            /\ IF me.size < 1 THEN gen_die(t, "InvalidPopulationSizeException")
               ELSE IF me.max_depth < 2 /\ ~me.force_trivial
               THEN gen_die(t, "InvalidDepthException")
               ELSE IF me.method = "GROW"
               THEN gthreads' = [gthreads EXCEPT ![t].serial.pc = "grow"]
               ELSE IF me.method = "FULL"
               THEN gthreads' = [gthreads EXCEPT ![t].serial.pc = "full"]
               ELSE IF me.max_depth - 1 = 0
               THEN \* floor(size / n_divisions) with n_divisions = 0
                    gen_die(t, "ZeroDivisionError")
               ELSE \E rem_methods \in [1..q.n_divisions -> {"GROW", "FULL"}],
                       residue_strata \in samples(q.n_divisions, q.n_res) :
                       gthreads' = [gthreads EXCEPT
                           ![t].serial.pc = "ramped",
                           ![t].serial.quota = q,
                           ![t].serial.requests =
                               ramped_requests(q, rem_methods, residue_strata)]
            /\ UNCHANGED <<cmVars, evalVars, selVars, treeVars, generator, ghist>>

\* GROW: `for i in range(size): population.append(ParseTree.random(...))`
grow_member ==
    \E t \in GenThreads :
        LET me == gthreads[t].serial
        IN  /\ me.pc = "grow"
            /\ \E new_member \in random_trees(me.max_depth,
                                              generator.terminal_set,
                                              generator.operator_set) :
                  gthreads' = [gthreads EXCEPT
                      ![t].serial.population = Append(@, new_member),
                      ![t].serial.pc = IF Len(me.population) + 1 = me.size
                                       THEN "serial" ELSE "grow"]
            /\ UNCHANGED <<cmVars, evalVars, selVars, treeVars, generator, ghist>>

\* FULL: one turn of `while True`
full_member ==
    \E t \in GenThreads :
        LET me == gthreads[t].serial
        IN  /\ me.pc = "full"
            /\ \E new_member \in random_trees(me.max_depth,
                                              generator.terminal_set,
                                              generator.operator_set) :
                  LET kept == IF full_keeps(new_member, me.max_depth)
                              THEN Append(me.population, new_member)
                              ELSE me.population
                  IN  gthreads' = [gthreads EXCEPT
                          ![t].serial.population = kept,
                          ![t].serial.pc = IF Len(kept) = me.size
                                           THEN "serial" ELSE "full"]
            /\ UNCHANGED <<cmVars, evalVars, selVars, treeVars, generator, ghist>>

\* RAMPED: the next `population += self.generate(n, depth, method=...)`, or
\* the end of the loops
ramped_request ==
    \E t \in GenThreads :
        LET me == gthreads[t].serial
        IN  /\ me.pc = "ramped"
            /\ IF me.made < Len(me.requests)
               THEN LET r == me.requests[me.made + 1]
                    IN  gthreads' = [gthreads EXCEPT
                            ![t].serial.pc = "nested",
                            ![t].call =
                                [IdleCall EXCEPT
                                   !.pc = "lock", !.size = r.size,
                                   !.max_depth = r.max_depth,
                                   !.method = r.method,
                                   !.force_trivial = me.force_trivial]]
               ELSE gthreads' = [gthreads EXCEPT ![t].serial.pc = "serial"]
            /\ UNCHANGED <<cmVars, evalVars, selVars, treeVars, generator, ghist>>

\* `with self._serial_lock:` entered
enter_serial ==
    \E t \in GenThreads :
        /\ gthreads[t].serial.pc = "serial"
        /\ generator.serial_lock = 0
        /\ generator' = [generator EXCEPT !.serial_lock = t]
        /\ gthreads' = [gthreads EXCEPT ![t].serial.pc = "locked"]
        /\ UNCHANGED <<cmVars, evalVars, selVars, treeVars, ghist>>

\* `self._population_buffer += population; return`
append_serial ==
    \E t \in GenThreads :
        /\ gthreads[t].serial.pc = "locked"
        /\ generator' = [generator EXCEPT
               !.population_buffer = @ \o gthreads[t].serial.population,
               !.serial_lock = 0]
        /\ gthreads' = [gthreads EXCEPT ![t].serial =
               [IdleSerial EXCEPT !.pc = "done"]]
        /\ ghist' = [ghist EXCEPT !.makers =
               @ \o [i \in 1..Len(gthreads[t].serial.population) |-> t]]
        /\ UNCHANGED <<cmVars, evalVars, selVars, treeVars>>

GenNext ==
    \/ generate
    \/ mutation_generate
    \/ enter_generating
    \/ start_thread
    \/ join_thread
    \/ return_generate
    \/ take_result
    \/ serial_checks
    \/ grow_member
    \/ full_member
    \/ ramped_request
    \/ enter_serial
    \/ append_serial

-----------------------------------------------------------------------------
(***************************************************************************)
(* Evaluation of trees on the fitness cases: FitnessFunction._eval calls   *)
(* individual.eval for every case with its args, and Node.eval binds the   *)
(* value of the case to the Variable atom of a leaf before it reads it.    *)
(* The survive workers evaluate the trees of their chunks at the same      *)
(* time, inside Selector.select.  Here fitness_cases holds, for every      *)
(* case, the value its args give to the variable x.                        *)
(***************************************************************************)
\* Variable._value = None
None == 0

\* the Variable objects: 0 is the one of the terminal set, the others belong
\* to copies of trees
ObjIds == 0..(2 * MaxPar)

RECURSIVE leaf_count(_)
leaf_count(node) ==
    IF arity(node.atom) = 0 THEN 1
    ELSE SeqSum([i \in DOMAIN node.children |-> leaf_count(node.children[i])])

RECURSIVE copy_node(_, _)
\* Node.copy: a new node over a copy of the atom, for every node; the copies
\* of the Variable leaves are the new objects base + 1, base + 2, ...
copy_node(node, base) ==
    IF arity(node.atom) = 0 THEN Node(node.atom, base + 1, <<>>)
    ELSE Node(node.atom, node.obj,
              [i \in DOMAIN node.children |->
                  copy_node(node.children[i],
                            base + SeqSum([j \in 1..(i - 1) |->
                                              leaf_count(node.children[j])]))])

RECURSIVE leaves(_)
\* the Variable objects of the leaves, in the order Node.eval visits them
leaves(node) ==
    IF arity(node.atom) = 0 THEN <<node.obj>>
    ELSE Flatten([i \in DOMAIN node.children |-> leaves(node.children[i])])

RECURSIVE eval_node(_, _)
\* Node.eval over the values vals read at the leaves: Operator.eval applies
\* the operator's function to the values of the children
eval_node(node, vals) ==
    IF arity(node.atom) = 0 THEN vals[1]
    ELSE LET n1 == leaf_count(node.children[1])
             a  == eval_node(node.children[1], SubSeq(vals, 1, n1))
         IN  IF node.atom = "neg" THEN 0 - a
             ELSE a + eval_node(node.children[2],
                                SubSeq(vals, n1 + 1, Len(vals)))

IdleEval == [pc |-> "idle", tree |-> Node("x", 0, <<>>), case |-> 0, leaf |-> 0,
             vals |-> <<>>, results |-> <<>>, err |-> "none",
             kwargs |-> TRUE, later |-> <<>>]

\* every worker is about to evaluate one tree of its chunk: a tree as the
\* generator built it, or a copy made by a genetic operator
EvalInit ==
    /\ heap = [o \in ObjIds |-> None]
    /\ \E ops \in {<<"neg">>, <<"add">>} :
          \E ts \in [Workers -> random_trees(2, <<"x">>, ops)],
             copied \in [Workers -> BOOLEAN] :
                ev = [w \in Workers |->
                        [IdleEval EXCEPT
                           !.pc = "bind", !.case = 1, !.leaf = 1,
                           !.tree = IF copied[w]
                                    THEN copy_node(ts[w], 2 * (w - 1))
                                    ELSE ts[w]]]

\* Node.eval at a leaf: `search = kwargs.get(arg)`, and if it is not None
\* `self._value.bind(search)`
eval_bind ==
    \E w \in Workers :
        LET me == ev[w]
        IN  /\ me.pc = "bind"
            /\ heap' = [heap EXCEPT ![leaves(me.tree)[me.leaf]] =
                                         fitness_cases[me.case]]
            /\ ev' = [ev EXCEPT ![w].pc = "read"]
            /\ UNCHANGED <<cmVars, genVars, selVars, treeVars>>

\* Node.eval at a leaf: `return self._value.eval()`, which raises when the
\* Variable is not bound; after the last leaf the operators are applied and
\* _eval goes on to the next fitness case.  In a call without keyword
\* arguments search is None at every leaf and nothing is bound.
eval_read ==
    \E w \in Workers :
        LET me   == ev[w]
            v    == heap[leaves(me.tree)[me.leaf]]
            vals == Append(me.vals, v)
        IN  /\ me.pc = "read"
            /\ ev' = [ev EXCEPT ![w] =
                  IF v = None
                  THEN [me EXCEPT !.pc = "dead",
                                  !.err = "InvalidVariableBindingException"]
                  ELSE IF me.leaf < Len(leaves(me.tree))
                  THEN [me EXCEPT !.pc = IF me.kwargs THEN "bind" ELSE "read",
                                  !.leaf = @ + 1, !.vals = vals]
                  ELSE IF ~me.kwargs
                  THEN [me EXCEPT !.pc = "returned", !.vals = <<>>,
                                  !.later = <<eval_node(me.tree, vals)>>]
                  ELSE [me EXCEPT
                          !.pc = IF me.case < Len(fitness_cases)
                                 THEN "bind" ELSE "done",
                          !.case = @ + 1, !.leaf = 1, !.vals = <<>>,
                          !.results = Append(@, eval_node(me.tree, vals))]]
            /\ UNCHANGED <<cmVars, genVars, selVars, treeVars, heap>>

\* tree.eval() is called on a tree after the evaluations of its fitness
\* cases have returned, with no keyword argument
eval_unbound ==
    \E w \in Workers :
        /\ ev[w].pc = "done"
        /\ ev' = [ev EXCEPT ![w].pc = "read", ![w].leaf = 1,
                            ![w].kwargs = FALSE]
        /\ UNCHANGED <<cmVars, genVars, selVars, treeVars, heap>>

EvalNext ==
    \/ eval_bind
    \/ eval_read
    \/ eval_unbound

-----------------------------------------------------------------------------
(***************************************************************************)
(* Fitness-proportionate selection: Selector._select_proportionate over    *)
(* the one FitnessFunction of the control model.  Every survive worker     *)
(* selects from its own chunk (GeneticOperatorSet.operate is called with   *)
(* sub_population), and all of them go through the same Selector and the   *)
(* same FitnessFunction object.  A member of a chunk is its Standardized   *)
(* fitness 0..MaxFit-1; numbers that are fractions in the code are pairs   *)
(* <<numerator, denominator>> here.                                        *)
(***************************************************************************)
\* a fraction-valued attribute that is None
Unset == <<>>

\* FitnessFunction._adjusted_fitness: 1 / (1 + standardized)
adjusted(std) == <<1, 1 + std>>

rat_add(a, b) == <<a[1] * b[2] + b[1] * a[2], a[2] * b[2]>>

rat_div(a, b) == <<a[1] * b[2], a[2] * b[1]>>

rat_less(a, b) == a[1] * b[2] < b[1] * a[2]

rat_eq(a, b) == a[1] * b[2] = b[1] * a[2]

RECURSIVE rat_sum(_)
\* sum([...]) of fractions
rat_sum(s) == IF s = <<>> THEN <<0, 1>> ELSE rat_add(s[1], rat_sum(Tail(s)))

\* cf = nf.copy(); for i in range(1, len(cf)): cf[i] += cf[i - 1]
cumulative(nf) == [i \in 1..Len(nf) |-> rat_sum(SubSeq(nf, 1, i))]

\* for i in range(len(cf)): if r < cf[i]: return population[i]
\* the 1-based index returned, or None when the loop ends without a return
first_bin(cf, v) ==
    IF \E i \in 1..Len(cf) : rat_less(<<v, RandRes>>, cf[i])
    THEN CHOOSE i \in 1..Len(cf) :
            /\ rat_less(<<v, RandRes>>, cf[i])
            /\ \A j \in 1..(i - 1) : ~rat_less(<<v, RandRes>>, cf[j])
    ELSE None

IdleSelect == [pc |-> "idle", population |-> <<>>, nf |-> <<>>,
               returned |-> None, err |-> "none"]

\* FitnessFunction.__init__ leaves both aggregates None; every worker is
\* about to select from its chunk
SelectInit ==
    /\ fitness = [aggregate_adjusted |-> Unset, aggregate_members |-> None]
    /\ \E par \in 1..MaxPar :
          \E chunks \in [1..par -> UNION {[1..n -> 0..(MaxFit - 1)] :
                                              n \in 1..MaxPop}] :
             sel = [w \in 1..par |->
                      [IdleSelect EXCEPT !.pc = "predefine",
                                         !.population = chunks[w]]]

\* predefine_aggregate(population): the two assignments
predefine_aggregate ==
    \E w \in DOMAIN sel :
        LET me == sel[w]
        IN  /\ me.pc = "predefine"
            /\ fitness' = [aggregate_members |-> Len(me.population),
                           aggregate_adjusted |->
                               rat_sum([k \in 1..Len(me.population) |->
                                           adjusted(me.population[k])])]
            /\ sel' = [sel EXCEPT ![w].pc = "normalize"]
            /\ UNCHANGED <<cmVars, genVars, evalVars, treeVars>>

\* one element of nf: _normalized_fitness(k) reads the cached aggregate
normalized_fitness ==
    \E w \in DOMAIN sel :
        LET me     == sel[w]
            k      == Len(me.nf) + 1
            factor == fitness.aggregate_adjusted
        IN  /\ me.pc = "normalize"
            /\ sel' = [sel EXCEPT ![w] =
                  IF factor = Unset
                  THEN [me EXCEPT !.pc = "dead",
                                  !.err = "InvalidAggregationException"]
                  ELSE [me EXCEPT
                          !.nf = Append(@, rat_div(adjusted(me.population[k]),
                                                   factor)),
                          !.pc = IF k = Len(me.population)
                                 THEN "draw" ELSE "normalize"]]
            /\ UNCHANGED <<cmVars, genVars, evalVars, treeVars, fitness>>

\* the cumulative array, r = random.random() and the search of the bin
select_draw ==
    \E w \in DOMAIN sel, v \in Variates :
        LET me == sel[w]
        IN  /\ me.pc = "draw"
            /\ sel' = [sel EXCEPT ![w].pc = "returned",
                                  ![w].returned = first_bin(cumulative(me.nf), v)]
            /\ UNCHANGED <<cmVars, genVars, evalVars, treeVars, fitness>>

SelectNext ==
    \/ predefine_aggregate
    \/ normalized_fitness
    \/ select_draw

-----------------------------------------------------------------------------
(***************************************************************************)
(* Operations on parse trees (GPParseTree.py) and the genetic operators    *)
(* (GPGeneticOperator.py).  In this part obj names the Node object: a copy *)
(* is made of new objects, a node moved from one tree to another keeps its *)
(* object.  A Constant node carries its value; the terminal "one" is the   *)
(* Constant 1 of a terminal set, "x" the Variable.                         *)
(***************************************************************************)
\* a Constant that forgets the value it was built from
ConstantZero(obj, value) ==
    [atom |-> "const", obj |-> obj, children |-> <<>>, value |-> 0]

\* ParseTree.Node(Constant(value))
ConstantNode(obj, value) ==
    [atom |-> "const", obj |-> obj, children |-> <<>>, value |-> value]

RECURSIVE is_parameterized(_)
\* Node.is_parameterized: the subtree holds a Variable
is_parameterized(node) ==
    \/ node.atom = "x"
    \/ \E i \in DOMAIN node.children : is_parameterized(node.children[i])

RECURSIVE node_count(_)
node_count(node) ==
    1 + SeqSum([i \in DOMAIN node.children |-> node_count(node.children[i])])

\* a copy of the root alone, over the children of the original
copy_tree_shallow(node, base) == [node EXCEPT !.obj = base + 1]

RECURSIVE copy_tree(_, _)
\* Node.copy: a new node over a copy of the atom, for every node, here the
\* objects base + 1, base + 2, ... in the order the copies are made; obj
\* names the new node and the new atom it is built over
copy_tree(node, base) ==
    [node EXCEPT
       !.obj = base + 1,
       !.children = [i \in DOMAIN node.children |->
           copy_tree(node.children[i],
                     base + 1 + SeqSum([j \in 1..(i - 1) |->
                                           node_count(node.children[j])]))]]

RECURSIVE bound_values(_, _)
\* what the terminals return, from left to right, when x is bound to b
bound_values(node, b) ==
    IF arity(node.atom) = 0
    THEN <<CASE node.atom = "x"     -> b
             [] node.atom = "one"   -> 1
             [] node.atom = "const" -> node.value>>
    ELSE Flatten([i \in DOMAIN node.children |->
                     bound_values(node.children[i], b)])

\* tree.eval(x=b)
eval_tree(node, b) == eval_node(node, bound_values(node, b))

RECURSIVE shape(_)
\* str(tree): the symbolic form names the atoms, not the objects
shape(node) ==
    [atom |-> IF node.atom = "const" THEN <<"const", node.value>>
              ELSE <<node.atom>>,
     children |-> [i \in DOMAIN node.children |-> shape(node.children[i])]]

RECURSIVE linearize(_, _, _, _)
\* Node._linearize: the nodes of the subtree in preorder, without the ones
\* the options exclude; exclude_first is not handed down to the children
linearize(node, exclude_first, non_terminal, non_parameterized) ==
    LET excluded == \/ exclude_first
                    \/ (arity(node.atom) = 0 /\ non_terminal)
                    \/ (is_parameterized(node) /\ non_parameterized)
    IN  (IF excluded THEN <<>> ELSE <<node>>)
        \o Flatten([i \in DOMAIN node.children |->
                      linearize(node.children[i], FALSE, non_terminal,
                                non_parameterized)])

\* the objects of a tree
objects(node) ==
    {n.obj : n \in Range(linearize(node, FALSE, FALSE, FALSE))}

RECURSIVE lineage(_, _)
\* Node.get_node_lineage: the parent of the object target and the index of
\* target among its children, the first found from the left; <<0, 0>> when
\* target is the root or is not in the tree
lineage(node, target) ==
    LET here == {i \in DOMAIN node.children : node.children[i].obj = target}
        below == {i \in DOMAIN node.children :
                     lineage(node.children[i], target) # <<0, 0>>}
        least(is) == CHOOSE i \in is : \A j \in is : i <= j
    IN  IF here \cup below = {} THEN <<0, 0>>
        ELSE IF least(here \cup below) \in here
             THEN <<node.obj, least(here \cup below)>>
             ELSE lineage(node.children[least(here \cup below)], target)

RECURSIVE set_child(_, _, _, _)
\* Node.set_child on the object parent, seen in a tree that may hold it
set_child(node, parent, index, new) ==
    IF node.obj = parent
    THEN [node EXCEPT !.children[index] = new]
    ELSE [node EXCEPT !.children =
             [i \in DOMAIN node.children |->
                 set_child(node.children[i], parent, index, new)]]

RECURSIVE depth_of(_, _)
\* Node.depth_of: the level of the object target, the root being at level
\* 1; None when the tree does not hold it
depth_of(node, target) ==
    IF node.obj = target THEN 1
    ELSE LET ds == {depth_of(node.children[i], target) :
                       i \in DOMAIN node.children} \ {None}
         IN  IF ds = {} THEN None ELSE 1 + (CHOOSE d \in ds : TRUE)

\* a node that appends whatever it is
add_child_unchecked(node, child_value) ==
    [raised |-> "none",
     node   |-> [node EXCEPT !.children = Append(@, child_value)]]

\* Node.add_child: a terminal refuses the child, any other node appends it
add_child(node, child_value) ==
    IF arity(node.atom) = 0
    THEN [raised |-> "NodeTerminationException", node |-> node]
    ELSE [raised |-> "none",
          node   |-> [node EXCEPT !.children = Append(@, child_value)]]

\* the objects of a tree are named within a block of this size: a tree of
\* depth MaxDepth over operators of arity two has fewer nodes
Block == 2 ^ MaxDepth

\* the parent itself in the place of its copy
clone_shared(p, j) == forest.population[p]

\* parent.copy(), the j-th tree an operator builds
clone(p, j) == copy_tree(forest.population[p], (2 + j) * Block)

\* the trees an operator can reach are the population handed to it and the
\* trees it holds; a node object changed in place changes in every tree
\* that holds it
put(mem, parent, index, new) ==
    [k \in DOMAIN mem |-> set_child(mem[k], parent, index, new)]

\* ParseTree.replace_node(root, replacement) called on the tree mem[t]: the
\* root of that tree is reassigned, or the parent's child is set
replace_node(mem, t, target, replacement) ==
    LET l == lineage(mem[t], target)
    IN  IF l[1] = 0 THEN [mem EXCEPT ![t] = replacement]
        ELSE put(mem, l[1], l[2], replacement)

\* Node.shuffle_children: random.sample of all the children, any order
shuffles(children) ==
    {[i \in DOMAIN children |-> children[f[i]]] :
        f \in {g \in [DOMAIN children -> DOMAIN children] :
                  \A i, j \in DOMAIN children : g[i] = g[j] => i = j}}

\* any two nodes but the root, whether one descends from the other or not
random_node_pairs_any(tree) ==
    LET options == Range(linearize(tree, TRUE, FALSE, FALSE))
    IN  IF options = {} THEN {<<tree, tree>>} ELSE options \X options

\* ParseTree._random_node_pair: n1 is any node but the root; n2 is drawn up
\* to ten times until n1 | n2, that is until neither descends from the
\* other (n2 may be n1 itself); the pair is <<root, root>> when there is no
\* n1 or when every draw of n2 failed
random_node_pairs(tree) ==
    LET options == Range(linearize(tree, TRUE, FALSE, FALSE))
        descends(a, b) == a.obj # b.obj /\ a.obj \in objects(b)
        independent(a, b) == ~(descends(a, b) \/ descends(b, a))
    IN  {<<n1, n2>> \in options \X options : independent(n1, n2)}
        \cup (IF \A n1 \in options : \A n2 \in options : independent(n1, n2)
              THEN IF options = {} THEN {<<tree, tree>>} ELSE {}
              ELSE {<<tree, tree>>})

\* a swap that looks for the second node after it has set the first
swap_nodes_in_turn(mem, t, n1, n2) ==
    IF n1.obj = n2.obj THEN mem
    ELSE LET l1 == lineage(mem[t], n1.obj)
             m1 == put(mem, l1[1], l1[2], n2)
             l2 == lineage(m1[t], n2.obj)
         IN  put(m1, l2[1], l2[2], n1)

\* ParseTree._swap_nodes on the tree mem[t]: both lineages are found before
\* a child is set
swap_nodes(mem, t, n1, n2) ==
    IF n1.obj = n2.obj THEN mem
    ELSE LET l1 == lineage(mem[t], n1.obj)
             l2 == lineage(mem[t], n2.obj)
         IN  put(put(mem, l1[1], l1[2], n2), l2[1], l2[2], n1)

\* an editing that never draws the root of the clone
edited_below_root(mem, t) ==
    LET options == Range(linearize(mem[t], TRUE, TRUE, TRUE))
    IN  IF options = {} THEN {mem}
        ELSE {replace_node(mem, t, node.obj,
                           ConstantNode(5 * Block + 1, eval_tree(node, None))) :
                 node \in options}

\* the body of GeneticOperatorSet.editing on the clone mem[t]: every memory
\* it can leave
edited(mem, t) ==
    LET options == Range(linearize(mem[t], FALSE, TRUE, TRUE))
    IN  IF options = {} THEN {mem}
        ELSE {replace_node(mem, t, node.obj,
                           ConstantNode(5 * Block + 1, eval_tree(node, None))) :
                 node \in options}

\* crossover: timeout = 10
timeout == 10

IdleOp == [op |-> "none", pc |-> "idle", parents |-> <<>>, offspring |-> <<>>,
           counter |-> 0, max_depth |-> None, force_trivial |-> FALSE,
           node |-> None, identity |-> None, raised |-> "none",
           before |-> <<>>, fairness |-> FALSE, draws |-> {},
           fit |-> <<>>]

\* an operator is called: it is handed the population as it is now
begin(op) == [IdleOp EXCEPT !.op = op, !.before = forest.population]

\* the population a generator built over a Variable, a Constant and one
\* operator: a tree of depth two to MaxDepth and a tree of depth two (every
\* operator draws one parent or two)
TreeInit ==
    /\ \E os \in {<<"neg">>, <<"add">>} :
       \E ts \in {<<"x", "one">>} :
       \E pop \in random_trees(MaxDepth, ts, os) \X random_trees(2, ts, os) :
          forest = [population   |-> [k \in 1..2 |-> copy_tree(pop[k], k * Block)],
                    terminal_set |-> ts,
                    operator_set |-> os,
                    new_population |-> <<>>]
    /\ gop = IdleOp

\* no operator is running
at_rest == gop.pc = "idle"

\* an operator returns: mem holds the population and then the offspring
result(frame, mem) ==
    /\ forest' = [forest EXCEPT
                    !.population = Slice(mem, 0, Len(forest.population))]
    /\ gop' = [frame EXCEPT
                 !.pc = "returned",
                 !.offspring = Slice(mem, Len(forest.population),
                                     Len(mem) - Len(forest.population))]

RECURSIVE fill_draws(_, _, _, _, _, _)
\* ParseTree._fill_level(node, rem_levels, terminal_set, operator_set,
\* fairness) for the node at the given level of the tree it built: the
\* weights it drew the children of node with, and the weights of the calls
\* it made for the children, which it makes without the fairness argument
fill_draws(node, level, rem_levels, terminal_set, operator_set, fairness) ==
    LET n_options == IF rem_levels < 2 THEN Len(terminal_set)
                     ELSE Len(terminal_set) + Len(operator_set)
        natural_weights == [i \in 1..n_options |-> 1]
        fair_weights ==
            IF rem_levels < 2 THEN natural_weights
            ELSE [i \in 1..Len(terminal_set) |-> Len(operator_set)]
                 \o [i \in 1..Len(operator_set) |-> Len(terminal_set)]
    IN  IF node.children = <<>> THEN {}
        ELSE {[level      |-> level,
               rem_levels |-> rem_levels,
               weights    |-> IF fairness THEN fair_weights
                              ELSE natural_weights]}
             \cup UNION {fill_draws(node.children[i], level + 1,
                                    rem_levels - 1, terminal_set,
                                    operator_set, FALSE) :
                            i \in DOMAIN node.children}

\* ParseTree.random(max_depth, terminal_set, operator_set, force_trivial,
\* fairness); trees of MaxDepth + 1 levels are asked for over operators of
\* one argument only
random ==
    /\ at_rest
    /\ \E max_depth \in 0..(MaxDepth + 1), force_trivial \in BOOLEAN,
          fairness \in BOOLEAN :
          LET frame == [begin("random") EXCEPT
                           !.max_depth = max_depth,
                           !.force_trivial = force_trivial,
                           !.fairness = fairness]
          IN  /\ \/ max_depth <= MaxDepth
                 \/ \A i \in DOMAIN forest.operator_set :
                       arity(forest.operator_set[i]) = 1
              /\ IF max_depth < 2 /\ ~force_trivial
                 THEN /\ gop' = [frame EXCEPT
                                   !.pc = "raised",
                                   !.raised = "InvalidDepthException"]
                      /\ UNCHANGED forest
                 ELSE \E tree \in random_trees(max_depth,
                                               forest.terminal_set,
                                               forest.operator_set) :
                         result([frame EXCEPT !.draws =
                                    fill_draws(tree, 1, max_depth - 1,
                                               forest.terminal_set,
                                               forest.operator_set,
                                               fairness)],
                                forest.population
                                \o <<copy_tree(tree, 3 * Block)>>)
    /\ UNCHANGED <<cmVars, genVars, evalVars, selVars>>

\* reproduce, and encapsulation, decimation, create, compress and expand,
\* which select a parent and return its copy
reproduce_tree ==
    /\ at_rest
    /\ \E op \in {"reproduce", "encapsulation", "decimation", "create",
                  "compress", "expand"} :
       \E p \in DOMAIN forest.population :
          result([begin(op) EXCEPT !.parents = <<p>>],
                 forest.population \o <<clone(p, 1)>>)
    /\ UNCHANGED <<cmVars, genVars, evalVars, selVars>>

\* one pass of the while loop of crossover once the clones and their nodes
\* are drawn: the memory after the two replacements
crossover_pass(child1, child2, subtree1, subtree2) ==
    replace_node(replace_node(forest.population \o <<child1, child2>>,
                              Len(forest.population) + 1, subtree1.obj,
                              subtree2),
                 Len(forest.population) + 2, subtree2.obj, subtree1)

\* the depth test that ends the loop of crossover
within_depth(mem, max_depth) ==
    /\ get_depth(mem[Len(forest.population) + 1]) <= max_depth
    /\ get_depth(mem[Len(forest.population) + 2]) <= max_depth

\* a bound one level above the deeper parent
deeper_by_one(p1, p2) ==
    Max2(get_depth(forest.population[p1]), get_depth(forest.population[p2])) + 1

\* max_depth = max(child1.get_depth(), child2.get_depth())
deeper(p1, p2) ==
    Max2(get_depth(forest.population[p1]), get_depth(forest.population[p2]))

\* one pass of the while loop of crossover, the first one or one after
\* counter < timeout passes that failed.  max_depth is None on the first
\* pass only, so the parents of the first pass set the bound of every pass.
\* A pass within the bound returns its pair; any other pass leaves its
\* clones to the collector and counts.  The pair a later pass returns does
\* not depend on how many passes failed before it, and is recorded with
\* counter 1.
crossover_tree ==
    /\ \/ at_rest
       \/ gop.op = "crossover" /\ gop.pc = "loop" /\ gop.counter < timeout
    /\ \E p1, p2 \in DOMAIN forest.population :
          LET child1    == clone(p1, 1)
              child2    == clone(p2, 2)
              max_depth == IF gop.max_depth = None THEN deeper(p1, p2)
                           ELSE gop.max_depth
          IN  \E subtree1 \in Range(linearize(child1, FALSE, FALSE, FALSE)),
                 subtree2 \in Range(linearize(child2, FALSE, FALSE, FALSE)) :
                 LET mem == crossover_pass(child1, child2, subtree1, subtree2)
                 IN  IF within_depth(mem, max_depth)
                     THEN result([begin("crossover") EXCEPT
                                    !.parents = <<p1, p2>>,
                                    !.max_depth = max_depth,
                                    !.counter = IF gop.counter = 0 THEN 0
                                                ELSE 1],
                                 mem)
                     ELSE /\ gop' = [begin("crossover") EXCEPT
                                       !.pc = "loop",
                                       !.max_depth = max_depth,
                                       !.counter = gop.counter + 1]
                          /\ UNCHANGED forest
    /\ UNCHANGED <<cmVars, genVars, evalVars, selVars>>

\* a fallback that hands back the one copy twice
crossover_fallback_same ==
    /\ gop.op = "crossover" /\ gop.pc = "loop" /\ gop.counter >= timeout
    /\ \E p \in DOMAIN forest.population :
          result([gop EXCEPT !.parents = <<p>>],
                 forest.population \o <<clone(p, 1), clone(p, 1)>>)
    /\ UNCHANGED <<cmVars, genVars, evalVars, selVars>>

\* crossover after timeout passes that failed: d1 = reproduce(population)[0]
\* and d2 = d1.copy()
crossover_fallback ==
    /\ gop.op = "crossover" /\ gop.pc = "loop" /\ gop.counter >= timeout
    /\ \E p \in DOMAIN forest.population :
          LET d1 == clone(p, 1)
          IN  result([gop EXCEPT !.parents = <<p>>],
                     forest.population \o <<d1, copy_tree(d1, 4 * Block)>>)
    /\ UNCHANGED <<cmVars, genVars, evalVars, selVars>>

\* mutation: generate(1, subtree_max_depth, force_trivial=trivial) builds
\* the new subtree by GROW
mutation_tree ==
    /\ at_rest
    /\ \E p \in DOMAIN forest.population :
          LET clone1     == clone(p, 1)
              max_depth == get_depth(clone1)
          IN  \E removed_subtree \in
                     Range(linearize(clone1, FALSE, FALSE, FALSE)) :
                LET node_depth        == depth_of(clone1, removed_subtree.obj)
                    subtree_max_depth == max_depth - node_depth + 1
                IN  \E new_subtree \in
                          random_trees(subtree_max_depth, forest.terminal_set,
                                       forest.operator_set) :
                       result([begin("mutation") EXCEPT
                                 !.parents = <<p>>,
                                 !.max_depth = max_depth,
                                 !.node = removed_subtree.obj],
                              replace_node(forest.population \o <<clone1>>,
                                           Len(forest.population) + 1,
                                           removed_subtree.obj,
                                           copy_tree(new_subtree, 5 * Block)))
    /\ UNCHANGED <<cmVars, genVars, evalVars, selVars>>

\* permutation: the children of a random operator node of the clone are
\* shuffled
permutation ==
    /\ at_rest
    /\ \E p \in DOMAIN forest.population :
          LET mem     == forest.population \o <<clone(p, 1)>>
              options == Range(linearize(clone(p, 1), FALSE, TRUE, FALSE))
              frame   == [begin("permutation") EXCEPT !.parents = <<p>>]
          IN  IF options = {} THEN result(frame, mem)
              ELSE \E target \in options :
                   \E children \in shuffles(target.children) :
                      LET mem1 == put(mem, target.obj, 1, children[1])
                      IN  result([frame EXCEPT !.node = target.obj],
                                 IF Len(children) > 1
                                 THEN put(mem1, target.obj, 2, children[2])
                                 ELSE mem1)
    /\ UNCHANGED <<cmVars, genVars, evalVars, selVars>>

\* editing: a subtree of the clone that holds no Variable is replaced by
\* the Constant of its value
editing ==
    /\ at_rest
    /\ \E p \in DOMAIN forest.population :
       \E mem \in edited(forest.population \o <<clone(p, 1)>>,
                         Len(forest.population) + 1) :
          result([begin("editing") EXCEPT !.parents = <<p>>], mem)
    /\ UNCHANGED <<cmVars, genVars, evalVars, selVars>>

\* inversion: child.swap_random_node_pair()
inversion ==
    /\ at_rest
    /\ \E p \in DOMAIN forest.population :
       \E pair \in random_node_pairs(clone(p, 1)) :
          result([begin("inversion") EXCEPT
                    !.parents = <<p>>,
                    !.node = <<pair[1].obj, pair[2].obj>>],
                 swap_nodes(forest.population \o <<clone(p, 1)>>,
                            Len(forest.population) + 1, pair[1], pair[2]))
    /\ UNCHANGED <<cmVars, genVars, evalVars, selVars>>

\* the node of a tree that is the object obj
node_at(tree, obj) ==
    CHOOSE n \in Range(linearize(tree, FALSE, FALSE, FALSE)) : n.obj = obj

\* child._swap_nodes(n1, n2) once more, on the tree inversion returned and
\* with the pair of nodes it swapped
swap_nodes_again ==
    /\ gop.op = "inversion" /\ gop.pc = "returned"
    /\ LET mem == forest.population \o gop.offspring
           t   == Len(forest.population) + 1
       IN  result([gop EXCEPT !.op = "swap_nodes"],
                  swap_nodes(mem, t, node_at(mem[t], gop.node[1]),
                             node_at(mem[t], gop.node[2])))
    /\ UNCHANGED <<cmVars, genVars, evalVars, selVars>>

\* hoist: the tree rooted at a random operator node of the clone
hoist ==
    /\ at_rest
    /\ \E p \in DOMAIN forest.population :
          LET options == Range(linearize(clone(p, 1), FALSE, TRUE, FALSE))
              frame   == [begin("hoist") EXCEPT !.parents = <<p>>]
          IN  \E hoisted \in (IF options = {} THEN {clone(p, 1)} ELSE options) :
                 result(frame, forest.population \o <<hoisted>>)
    /\ UNCHANGED <<cmVars, genVars, evalVars, selVars>>

\* _simplify before its loop: identity = str(self._optimal_member).  The
\* optimal member is a tree of the population; its Variables are bound when
\* a fitness case was evaluated on it, and the symbolic form of an unbound
\* Variable raises
simplify_begin ==
    /\ at_rest
    /\ \E p \in DOMAIN forest.population, bound \in BOOLEAN :
          LET frame == [begin("simplify") EXCEPT !.parents = <<p>>]
          IN  IF ~bound /\ is_parameterized(forest.population[p])
              THEN gop' = [frame EXCEPT
                             !.pc = "raised",
                             !.raised = "InvalidVariableBindingException"]
              ELSE gop' = [frame EXCEPT
                             !.pc = "loop",
                             !.offspring = <<forest.population[p]>>,
                             !.identity = shape(forest.population[p])]
    /\ UNCHANGED <<forest, cmVars, genVars, evalVars, selVars>>

\* one pass of the loop of _simplify: editing([optimal_member])[0] takes the
\* place of the optimal member, until str() of it is what it was
simplify ==
    /\ gop.op = "simplify" /\ gop.pc = "loop"
    /\ LET n     == Len(forest.population)
           edit  == copy_tree(gop.offspring[1], (3 + (gop.counter % 2)) * Block)
       IN  \E mem \in edited(forest.population \o gop.offspring \o <<edit>>,
                             n + 2) :
              /\ forest' = [forest EXCEPT !.population = Slice(mem, 0, n)]
              /\ gop' = [gop EXCEPT
                           !.pc = IF shape(mem[n + 2]) = gop.identity
                                  THEN "returned" ELSE "loop",
                           !.offspring = <<mem[n + 2]>>,
                           !.identity = shape(mem[n + 2]),
                           !.counter = @ + 1]
    /\ UNCHANGED <<cmVars, genVars, evalVars, selVars>>

\* node << child on a terminal node of a tree of the population
add_child_to_terminal ==
    /\ at_rest
    /\ \E p \in DOMAIN forest.population :
       \E node \in {m \in Range(linearize(forest.population[p], FALSE, FALSE,
                                           FALSE)) : arity(m.atom) = 0} :
       \E t \in Range(forest.terminal_set) :
          LET called == add_child(node, Node(t, 5 * Block + 1, <<>>))
          IN  /\ forest' = [forest EXCEPT !.population =
                     replace_node(forest.population, p, node.obj, called.node)]
              /\ gop' = [begin("add_child") EXCEPT
                           !.pc = IF called.raised = "none" THEN "returned"
                                  ELSE "raised",
                           !.parents = <<p>>,
                           !.node = node.obj,
                           !.raised = called.raised]
    /\ UNCHANGED <<cmVars, genVars, evalVars, selVars>>

\* the weights a control model gives its operators by default: reproduction,
\* crossover and mutation
default_set == {"reproduce", "crossover", "mutation"}

\* _concurrent_survive over the whole population as its chunk, and the end
\* of _survive: the children an operator of the default set returned are
\* appended to new_population until it has the size of the chunk, and the
\* full new_population takes the place of the population.  The trees that
\* are kept are named anew, the children in the blocks after those of the
\* operators and the population in its own blocks.  Generations are
\* followed over operators of one argument.
survive_tree ==
    /\ gop.pc = "returned" /\ gop.op \in default_set
    /\ \A i \in DOMAIN forest.operator_set :
          arity(forest.operator_set[i]) = 1
    /\ LET new == append_children(forest.new_population, gop.offspring,
                                  Len(forest.population))
       IN  forest' =
             IF Len(new) >= Len(forest.population)
             THEN [forest EXCEPT
                     !.population = [k \in DOMAIN new |->
                                       copy_tree(new[k], k * Block)],
                     !.new_population = <<>>]
             ELSE [forest EXCEPT
                     !.new_population = [k \in DOMAIN new |->
                                           copy_tree(new[k], (5 + k) * Block)]]
    /\ gop' = IdleOp
    /\ UNCHANGED <<cmVars, genVars, evalVars, selVars>>

\* the caller drops what the operator returned or raised
discard ==
    /\ gop.pc \in {"returned", "raised"}
    /\ gop' = IdleOp
    /\ UNCHANGED <<forest, cmVars, genVars, evalVars, selVars>>

TreeNext ==
    \/ random
    \/ reproduce_tree
    \/ crossover_tree
    \/ crossover_fallback
    \/ mutation_tree
    \/ permutation
    \/ editing
    \/ inversion
    \/ swap_nodes_again
    \/ hoist
    \/ simplify_begin
    \/ simplify
    \/ add_child_to_terminal
    \/ survive_tree
    \/ discard

-----------------------------------------------------------------------------
(***************************************************************************)
(* Raw fitness (GPFitnessFunction.py): FitnessFunction._eval over the      *)
(* bound fitness cases, with the default error |y - t| and the default     *)
(* aggregator sum.  A fitness case is [x, target].                         *)
(***************************************************************************)
\* FitnessFunction.__init__: max_fitness = 1000000
max_fitness == 1000000

\* the default error function, lambda y, t: abs(y - t)
error(y, t) == IF y >= t THEN y - t ELSE t - y

\* FitnessFunction._eval: the accumulator holds one entry for every fitness
\* case, the error of the case and, for a trivial individual, the signed
\* max_fitness; the aggregator is applied to the accumulator
fitness_eval(individual, cases, objective, allow_trivial) ==
    LET is_trivial == ~is_parameterized(individual) /\ ~allow_trivial
        e(k) == error(eval_tree(individual, cases[k].x), cases[k].target)
                + (IF is_trivial
                   THEN IF objective = "MINIMISE" THEN max_fitness
                        ELSE 0 - max_fitness
                   ELSE 0)
    IN  SeqSum([k \in DOMAIN cases |-> e(k)])

\* the fitness cases that may be bound
FitnessCases ==
    UNION {[1..n -> [x : 1..MaxVal, target : {0, MaxVal}]] :
              n \in 0..MaxEvalCases}

\* one individual: a terminal, or a tree of up to MaxDepth levels
FitnessInit ==
    /\ \E os \in {<<"neg">>, <<"add">>} :
       \E ts \in {<<"x", "one">>} :
       \E d \in 1..MaxDepth :
       \E tree \in random_trees(d, ts, os) :
          forest = [population   |-> <<copy_tree(tree, Block)>>,
                    terminal_set |-> ts,
                    operator_set |-> os,
                    new_population |-> <<>>]
    /\ gop = IdleOp

\* FitnessFunction.fitness(individual, measure=RAW) after the cases were
\* bound
raw_fitness ==
    /\ at_rest
    /\ \E cases \in FitnessCases,
          objective \in {"MINIMISE", "MAXIMISE"},
          allow_trivial \in BOOLEAN :
          gop' = [begin("raw_fitness") EXCEPT
                    !.pc = "returned",
                    !.parents = <<1>>,
                    !.fit = [cases         |-> cases,
                             objective     |-> objective,
                             allow_trivial |-> allow_trivial,
                             raw |-> fitness_eval(forest.population[1],
                                                  cases, objective,
                                                  allow_trivial)]]
    /\ UNCHANGED <<forest, cmVars, genVars, evalVars, selVars>>

FitnessNext ==
    \/ raw_fitness
    \/ discard

-----------------------------------------------------------------------------
(***************************************************************************)
(* The specifications.  Each follows one part of the program; the state of *)
(* the other parts stays as constructed.                                   *)
(***************************************************************************)
\* a control model that is constructed and not used
CMParked(cases) ==
    CMInitWith(CHOOSE c \in CMConfigs({<<1, 1>>}) : TRUE, <<>>, cases, FALSE)

\* a generator that is constructed and not used
GenParked ==
    /\ generator = [terminal_set |-> <<"x">>, operator_set |-> <<"neg">>,
                    parallelization |-> 1, population_buffer |-> <<>>,
                    serial_lock |-> 0, generating_lock |-> 0]
    /\ gthreads = [t \in GenThreads |-> IdleThread]
    /\ ghist = NoGenHistory

\* no tree is being evaluated
EvalParked ==
    /\ heap = <<>>
    /\ ev = <<>>

\* no selection is under way
SelParked ==
    /\ fitness = [aggregate_adjusted |-> Unset, aggregate_members |-> None]
    /\ sel = <<>>

\* no tree is handed to a genetic operator
TreeParked ==
    /\ forest = [population |-> <<>>, terminal_set |-> <<"x">>,
                 operator_set |-> <<"neg">>, new_population |-> <<>>]
    /\ gop = IdleOp

Init == CMInit /\ GenParked /\ EvalParked /\ SelParked /\ TreeParked

Next == CMNext

Spec == Init /\ [][Next]_vars

SeededStart ==
    SeededInit /\ GenParked /\ EvalParked /\ SelParked /\ TreeParked

SpecSeeded == SeededStart /\ [][SeededNext]_vars

GenStart ==
    GenInit /\ CMParked(<<>>) /\ EvalParked /\ SelParked /\ TreeParked

SpecGen == GenStart /\ [][GenNext]_vars

\* every thread that can take a step is scheduled in the end: the steps of
\* generate and of _generate_serial, and the caller going on after its call
GenFairness ==
    /\ WF_vars(enter_generating)
    /\ WF_vars(start_thread)
    /\ WF_vars(join_thread)
    /\ WF_vars(return_generate)
    /\ WF_vars(take_result)
    /\ WF_vars(serial_checks)
    /\ WF_vars(grow_member)
    /\ WF_vars(ramped_request)
    /\ WF_vars(enter_serial)
    /\ WF_vars(append_serial)

SpecGenFair == GenStart /\ [][GenNext]_vars /\ GenFairness

\* the fitness cases bound before evolution started
EvalStart ==
    /\ \E n \in 1..MaxEvalCases : \E cases \in [1..n -> 1..MaxVal] :
          CMParked(cases)
    /\ GenParked
    /\ EvalInit
    /\ SelParked
    /\ TreeParked

SpecEval == EvalStart /\ [][EvalNext]_vars

SelectStart ==
    SelectInit /\ CMParked(<<>>) /\ GenParked /\ EvalParked /\ TreeParked

SpecSelect == SelectStart /\ [][SelectNext]_vars

TreeStart ==
    TreeInit /\ CMParked(<<>>) /\ GenParked /\ EvalParked /\ SelParked

SpecTree == TreeStart /\ [][TreeNext]_vars

FitnessStart ==
    FitnessInit /\ CMParked(<<>>) /\ GenParked /\ EvalParked /\ SelParked

SpecFitness == FitnessStart /\ [][FitnessNext]_vars

-----------------------------------------------------------------------------
(***************************************************************************)
(* Properties of the control model.                                        *)
(***************************************************************************)

\* C1: once next() or evolve() has been called the flag _in_progress is set
\* and stays set, every later bind_fitness_case raises
\* InvalidOperationStateException and the list of fitness cases is the one
\* of the first call; before that each call appended exactly one case.
C1_BindOnlyBeforeEvolution ==
    /\ hist.calls = 0 =>
          /\ ~in_progress
          /\ Len(fitness_cases) = hist.binds
          /\ main.last = "bind" => main.raised = "none"
    /\ hist.calls > 0 =>
          /\ in_progress
          /\ fitness_cases = hist.frozen
          /\ Len(fitness_cases) = hist.binds
          /\ main.last = "bind" => main.raised = "InvalidOperationStateException"

\* a case was bound, evolution has started and a later bind was rejected
C1_Witness ==
    /\ hist.calls > 0
    /\ main.last = "bind"
    /\ main.raised = "InvalidOperationStateException"
    /\ Len(fitness_cases) = 1

\* C2: when no survive worker ended by an exception, the workers' offspring
\* number as many as the population did before the phase, whatever the
\* parallelization and the operators drawn; after the phase the population
\* is exactly the offspring the workers appended, none lost and none twice,
\* and the buffer is empty.
C2_SurvivePreservesSize ==
    LET ws       == 1..cfg.parallelization
        noneDead == \A w \in ws : wk[w].pc # "dead"
        news     == [w \in Workers |-> IF w \in ws THEN Len(wk[w].new) ELSE 0]
        total    == SeqSum([i \in 1..MaxPar |-> news[i]])
    IN  /\ \A w \in ws : Len(wk[w].new) <= Len(wk[w].sub) \/ wk[w].pc \in {"done", "locked"}
        /\ (main.pc = "join" /\ workers_joined /\ noneDead) =>
               Len(population_buffer) = hist.before
        /\ (hist.calls > 0 /\ main.pc # "join" /\ noneDead) =>
               /\ Len(population) = hist.before
               /\ population_buffer = <<>>
               /\ total = hist.before
               /\ Range(population) = UNION {Range(wk[w].new) : w \in ws}
               /\ Cardinality(Range(population)) = Len(population)

\* two workers have returned and their two offspring are the population
C2_Witness ==
    /\ main.pc = "idle"
    /\ hist.calls > 0
    /\ cfg.parallelization = 2
    /\ \A w \in 1..2 : wk[w].pc = "done" /\ Len(wk[w].new) = 1
    /\ Len(population) = 2
    /\ population_buffer = <<>>

\* C4: when a survive worker ended by an exception, the call of next() or
\* evolve() ends by raising that exception to its caller, without having
\* installed a population smaller than the one before and without having
\* run the evaluation.
C4_WorkerErrorIsFatal ==
    \A w \in Workers :
        (wk[w].pc = "dead" /\ main.pc # "join" /\ main.last # "bind") =>
            /\ main.raised = wk[w].err
            /\ ~hist.evaluated
            /\ Len(population) = hist.before

\* C9: two runs of next() from the same seed, arguments and initial
\* population end with the same population, whatever the interleaving of
\* the workers.
C9_SameSeedSamePopulation ==
    (replay.run = 2 /\ main.pc = "idle" /\ hist.calls = 1) =>
        [i \in 1..Len(population) |-> population[i].fit]
            = [i \in 1..Len(replay.first) |-> replay.first[i].fit]

\* C10: a tournament of proportion 1.0 over a population with one member of
\* strictly greatest fitness returns that member, whatever the draws.
C10_FullTournamentReturnsBest ==
    \A w \in Workers :
        LET sub == wk[w].sub
        IN  (/\ wk[w].pc = "apply"
             /\ cfg.selection_proportion = <<1, 1>>
             /\ Len(sub) > 1) =>
                \A i \in 1..Len(sub) :
                    (\A j \in 1..Len(sub) : j # i => sub[j].fit < sub[i].fit)
                        => wk[w].parents[1] = sub[i]

\* C12: a survive worker runs only while the calling thread waits at the
\* join of _survive of the same generation: the evaluate phase of that
\* generation has not started, and the one of the generation before (with
\* its callback and its convergence check) has ended.
C12_PhasesDoNotOverlap ==
    \A w \in Workers :
        wk[w].pc \in {"loop", "locked"} =>
            /\ main.pc = "join"
            /\ ~hist.evaluated
            /\ Len(hist.evals) < hist.calls

\* the second generation of a run with two workers has been evaluated
C12_Witness ==
    /\ cfg.parallelization = 2
    /\ cfg.population_size = 2
    /\ hist.calls = 2
    /\ Len(hist.evals) = 2
    /\ hist.evaluated
    /\ \A w \in Workers : wk[w].pc = "done"

\* C13: a generation of evolve(), on a model with threshold T that has not
\* converged and not counted T generations before, that does not raise ends
\* after its survive and evaluate by calling the evaluation callback with
\* the iteration value k - 1 in generation k; it then stops, with exactly
\* one call of the convergence callback and the return of the optimal member
\* and the final population, exactly when k has reached T or the predicate
\* holds on the optimal fitness, and calls next() again with no convergence
\* callback otherwise.
C13_EvolveRunsToConvergence ==
    [][(/\ main.call = "evolve"
        /\ hist.conv = 0
        /\ iteration < cfg.iteration_threshold
        /\ main.pc = "join"
        /\ main'.pc # "join"
        /\ main'.raised = "none") =>
            /\ \A w \in 1..cfg.parallelization : wk[w].pc \in {"done", "dead"}
            /\ hist'.evaluated
            /\ iteration' = iteration + 1
            /\ hist'.evals = [k \in 1..iteration' |-> k - 1]
            /\ IF \/ iteration' >= cfg.iteration_threshold
                  \/ optimal'.fitness >= cfg.converge_at
               THEN /\ hist'.conv = 1
                    /\ iteration' <= cfg.iteration_threshold
                    /\ main'.pc = "idle"
                    /\ main'.ret = "optimal"
                    /\ population' = population_buffer
               ELSE /\ hist'.conv = 0
                    /\ main'.pc = "loop"]_vars

\* evolve() returned after two generations, the predicate never held
C13_Witness ==
    /\ cfg.iteration_threshold = 2
    /\ cfg.converge_at > MaxFit
    /\ main.last = "evolve"
    /\ main.pc = "idle"
    /\ main.ret = "optimal"
    /\ hist.evals = <<0, 1>>
    /\ hist.conv = 1

\* C14: once a call of next() has reported convergence, no later step
\* replaces the population, invokes the convergence callback again or makes
\* next() return True.
C14_ConvergedIsTerminal ==
    [][hist.conv >= 1 =>
          /\ population' = population
          /\ hist'.conv = hist.conv
          /\ (main'.ret = "True" => main.ret = "True")]_vars

-----------------------------------------------------------------------------
(***************************************************************************)
(* Properties of the population generator.                                 *)
(***************************************************************************)

\* C5: a call of generate with size < 1, or with max_depth < 2 while trivial
\* generation is not forced, never returns a population to its caller.
C5_InvalidArgumentsNeverReturn ==
    \A c \in GenClients :
        LET call == gthreads[c].call
        IN  (\/ call.size < 1
             \/ (call.max_depth < 2 /\ ~call.force_trivial))
                => call.pc # "returned"

\* C6: no generation worker waits for the generating lock while that lock
\* is held by the thread that started it and is waiting for it at the join.
C6_NoWorkerWaitsForItsCaller ==
    \A t \in GenThreads :
        child(t) \in GenThreads =>
            ~(/\ gthreads[t].call.pc = "join"
              /\ generator.generating_lock = t
              /\ gthreads[child(t)].serial.pc = "nested"
              /\ gthreads[child(t)].call.pc = "lock")

\* C7: in the RAMPED branch every depth stratum 2..max_depth is asked for
\* floor(n_local / 2) trees by FULL, as many by GROW and n_local mod 2 by a
\* policy drawn at random; the leftover size - n_local * (max_depth - 1)
\* trees are asked one each of distinct strata by FULL; the requests add up
\* to size.
C7_RampedQuotas ==
    \A t \in GenThreads :
        LET me   == gthreads[t].serial
            reqs == me.requests
            n_local == me.size \div (me.max_depth - 1)
            asked(depth, role) ==
                SeqSum([i \in 1..Len(reqs) |->
                          IF reqs[i].max_depth = depth /\ reqs[i].role = role
                          THEN reqs[i].size ELSE 0])
            residue == SelectSeq(reqs, LAMBDA r : r.role = "residue")
        IN  (me.method = "RAMPED" /\ me.pc \in {"ramped", "nested"}) =>
               /\ \A depth \in 2..me.max_depth :
                     /\ asked(depth, "full") = n_local \div 2
                     /\ asked(depth, "grow") = n_local \div 2
                     /\ asked(depth, "rem") = n_local % 2
               /\ Len(residue) = me.size - n_local * (me.max_depth - 1)
               /\ \A i, j \in 1..Len(residue) :
                     /\ residue[i].size = 1
                     /\ residue[i].method = "FULL"
                     /\ i # j => residue[i].max_depth # residue[j].max_depth
               /\ SeqSum([i \in 1..Len(reqs) |-> reqs[i].size]) = me.size

\* C8: generate(size, max_depth, GROW) with size >= 1 and max_depth >= 2
\* returns exactly size trees of depth at most max_depth, and with FULL
\* exactly size trees of depth max_depth, for every parallelization factor;
\* the chunk sizes, one per unit of the factor, add up to size, and the
\* buffer of the generator is empty whenever no call is inside generate.
C8_GrowAndFullReturnSizeTrees ==
    /\ generator.generating_lock = 0 => generator.population_buffer = <<>>
    /\ \A c \in GenClients :
          LET call == gthreads[c].call
          IN  (/\ call.pc = "returned"
               /\ call.size >= 1
               /\ call.max_depth >= 2
               /\ call.method \in {"GROW", "FULL"}) =>
                  /\ Len(call.new_pop) = call.size
                  /\ Len(call.population_split) = generator.parallelization
                  /\ SeqSum(call.population_split) = call.size
                  /\ \A i \in 1..Len(call.new_pop) :
                        IF call.method = "FULL"
                        THEN get_depth(call.new_pop[i]) = call.max_depth
                        ELSE get_depth(call.new_pop[i]) <= call.max_depth

\* a FULL call for two trees of depth 3, split over two workers, returned
C8_Witness ==
    \E c \in GenClients :
        LET call == gthreads[c].call
        IN  /\ call.pc = "returned"
            /\ call.method = "FULL"
            /\ call.size = 2
            /\ call.max_depth = 3
            /\ call.population_split = <<1, 1>>
            /\ Len(call.new_pop) = 2

\* thread t is inside `with self._generating_lock`
in_generate(t) == gthreads[t].call.pc \in {"start", "join"}

\* the calls of generate made by mutation in survive workers: one call at a
\* time is inside the lock, the buffer holds only trees of the worker of
\* that call, a call returns the one tree its own worker generated, and the
\* buffer is empty whenever no call is inside generate
mutation_calls_apart ==
    /\ \A t, u \in GenThreads : (in_generate(t) /\ in_generate(u)) => t = u
    /\ \A t \in GenThreads : in_generate(t) => generator.generating_lock = t
    /\ generator.generating_lock = 0 =>
          (generator.population_buffer = <<>> /\ ghist.makers = <<>>)
    /\ \A c \in GenClients :
          LET call == gthreads[c].call
          IN  call.by = "mutation" =>
                 /\ in_generate(c) =>
                       \A i \in DOMAIN ghist.makers : ghist.makers[i] = child(c)
                 /\ call.pc = "returned" =>
                       /\ Len(call.new_pop) = 1
                       /\ ghist.given[c] = <<child(c)>>
                       /\ get_depth(call.new_pop[1]) <= call.max_depth

\* C30: when several survive workers call generate at the same time through
\* mutation, the calls are serialized by the generating lock, each call
\* returns exactly the one tree generated for it and none made for another
\* caller, the buffer is empty whenever no call is inside generate, and
\* every such call returns in the end.
C30_MutationCallsAreSerialized ==
    /\ []mutation_calls_apart
    /\ \A c \in GenClients :
          (gthreads[c].call.by = "mutation" /\ gthreads[c].call.pc = "lock")
             ~> (gthreads[c].call.pc = "returned")

\* one mutation call has returned its tree while the call of another
\* worker, made before the first one returned, is inside the lock
C30_Witness ==
    \E c, d \in GenClients :
        /\ c # d
        /\ gthreads[c].call.by = "mutation"
        /\ gthreads[c].call.pc = "returned"
        /\ Len(gthreads[c].call.new_pop) = 1
        /\ gthreads[d].call.by = "mutation"
        /\ gthreads[d].call.pc = "join"
        /\ ghist.calls = 2

-----------------------------------------------------------------------------
(***************************************************************************)
(* Properties of the evaluation.                                           *)
(***************************************************************************)

\* C3: every evaluation of a tree by a survive worker returns the value
\* determined by the bindings of its own fitness case, whatever the other
\* workers evaluate at the same time.
C3_BindingNeverLeaks ==
    \A w \in Workers :
        \A k \in 1..Len(ev[w].results) :
            ev[w].results[k] =
                eval_node(ev[w].tree,
                          [i \in 1..leaf_count(ev[w].tree) |-> fitness_cases[k]])

-----------------------------------------------------------------------------
(***************************************************************************)
(* Properties of the selection.                                            *)
(***************************************************************************)

\* C11: every fitness-proportionate select returns a member of the
\* population passed to it, and the Normalized shares it computed over that
\* population add up to 1, also while other workers select from their chunks.
C11_ProportionateReturnsMember ==
    \A w \in DOMAIN sel :
        sel[w].pc = "returned" =>
            /\ rat_eq(rat_sum(sel[w].nf), <<1, 1>>)
            /\ sel[w].returned \in 1..Len(sel[w].population)

-----------------------------------------------------------------------------
(***************************************************************************)
(* Properties of the parse trees and of the genetic operators.             *)
(***************************************************************************)
\* the trees the operator that ran last handed back
Offspring == {gop.offspring[j] : j \in DOMAIN gop.offspring}

\* the operators of GeneticOperatorSet
GeneticOperators ==
    {"reproduce", "crossover", "mutation", "permutation", "editing",
     "encapsulation", "decimation", "inversion", "hoist", "create",
     "compress", "expand"}

\* C15: the loop of _simplify ends after at most as many passes as the
\* optimal member has nodes; the member it leaves evaluates, for every value
\* bound to x, as the optimal member the population holds; when the loop has
\* ended no Editing can change the member any more; and the population is
\* the one _simplify was started on.
C15_SimplifyKeepsTheFunction ==
    (gop.op = "simplify" /\ gop.pc \in {"loop", "returned"}) =>
        LET chosen == gop.before[gop.parents[1]]
        IN  /\ forest.population = gop.before
            /\ gop.counter <= node_count(chosen)
            /\ \A b \in 0..MaxVal :
                  eval_tree(gop.offspring[1], b) = eval_tree(chosen, b)
            /\ gop.pc = "returned" =>
                  linearize(gop.offspring[1], FALSE, TRUE, TRUE) = <<>>

\* a member with a Variable was simplified in more than one pass
C15_Witness ==
    /\ gop.op = "simplify" /\ gop.pc = "returned"
    /\ gop.counter >= 2
    /\ is_parameterized(gop.offspring[1])
    /\ shape(gop.offspring[1]) # shape(gop.before[gop.parents[1]])

\* C16: when a genetic operator has returned, the population it was handed
\* is what it was (the same objects in the same places), no offspring holds
\* an object of a tree of the population, and no two offspring share an
\* object.
C16_ParentsAreNeverTouched ==
    (gop.op \in GeneticOperators /\ gop.pc = "returned") =>
        /\ forest.population = gop.before
        /\ \A j \in DOMAIN gop.offspring :
              /\ \A k \in DOMAIN forest.population :
                    objects(gop.offspring[j])
                        \cap objects(forest.population[k]) = {}
              /\ \A i \in DOMAIN gop.offspring :
                    i # j => objects(gop.offspring[i])
                                \cap objects(gop.offspring[j]) = {}

\* a crossover swapped subtrees of two different parents
C16_Witness ==
    /\ gop.op = "crossover" /\ gop.pc = "returned"
    /\ Len(gop.parents) = 2 /\ gop.parents[1] # gop.parents[2]
    /\ shape(gop.offspring[1]) # shape(gop.before[gop.parents[1]])
    /\ shape(gop.offspring[2]) # shape(gop.before[gop.parents[2]])

\* C17: every node of every tree of the population and of every offspring
\* has as many children as the arity of its atom, so a terminal has none;
\* add_child on a terminal raises NodeTerminationException and the tree that
\* holds the terminal is what it was.
C17_ArityIsKept ==
    /\ \A tree \in Range(forest.population) \cup Offspring :
       \A node \in Range(linearize(tree, FALSE, FALSE, FALSE)) :
          Len(node.children) = arity(node.atom)
    /\ gop.op = "add_child" =>
          /\ gop.pc = "raised"
          /\ gop.raised = "NodeTerminationException"
          /\ forest.population = gop.before

\* a child was offered to a terminal of a tree of depth MaxDepth
C17_Witness ==
    /\ gop.op = "add_child" /\ gop.pc = "raised"
    /\ get_depth(forest.population[gop.parents[1]]) = MaxDepth
    /\ depth_of(forest.population[gop.parents[1]], gop.node) = MaxDepth

\* C18: when crossover returns a swapped pair, neither child is deeper than
\* the deeper of the two parents that were drawn in the pass that returned
\* it.
C18_ChildrenWithinTheirParents ==
    (gop.op = "crossover" /\ gop.pc = "returned" /\ Len(gop.parents) = 2) =>
        \A j \in DOMAIN gop.offspring :
            get_depth(gop.offspring[j]) <=
                Max2(get_depth(gop.before[gop.parents[1]]),
                     get_depth(gop.before[gop.parents[2]]))

\* C19: the node mutation replaces is not the root of the clone, so the
\* root of the offspring is the clone of the root of the parent.
C19_MutationKeepsTheRoot ==
    (gop.op = "mutation" /\ gop.pc = "returned") =>
        /\ gop.node # 3 * Block + 1
        /\ gop.offspring[1].obj = 3 * Block + 1
        /\ gop.offspring[1].atom = gop.before[gop.parents[1]].atom

\* C20: random raises InvalidDepthException exactly when max_depth < 2 and
\* force_trivial is false; with max_depth >= 2 the root is an operator and
\* the tree is no deeper than max_depth; with max_depth = 2 the children of
\* the root are terminals and the depth is 2; with force_trivial and
\* max_depth = 1 the tree is one terminal.
C20_RandomRespectsMaxDepth ==
    gop.op = "random" =>
        /\ gop.pc = "raised" <=> (gop.max_depth < 2 /\ ~gop.force_trivial)
        /\ gop.pc = "raised" => gop.raised = "InvalidDepthException"
        /\ (gop.pc = "returned" /\ gop.max_depth >= 2) =>
              /\ arity(gop.offspring[1].atom) > 0
              /\ get_depth(gop.offspring[1]) <= gop.max_depth
        /\ (gop.pc = "returned" /\ gop.max_depth = 2) =>
              /\ get_depth(gop.offspring[1]) = 2
              /\ \A i \in DOMAIN gop.offspring[1].children :
                    arity(gop.offspring[1].children[i].atom) = 0
        /\ (gop.pc = "returned" /\ gop.max_depth = 1) =>
              /\ arity(gop.offspring[1].atom) = 0
              /\ node_count(gop.offspring[1]) = 1

\* random(2, ...) returned an operator over terminals
C20_Witness ==
    /\ gop.op = "random" /\ gop.pc = "returned"
    /\ gop.max_depth = 2 /\ ~gop.force_trivial
    /\ get_depth(gop.offspring[1]) = 2

\* C21: when random is called with fairness, every node whose children are
\* drawn while at least two levels remain, at whatever level of the tree,
\* draws them with weight |operator_set| on each terminal and weight
\* |terminal_set| on each operator; with one level left the candidates are
\* the terminals alone.
C21_FairAtEveryLevel ==
    (gop.op = "random" /\ gop.pc = "returned" /\ gop.fairness) =>
       \A d \in gop.draws :
          IF d.rem_levels >= 2
          THEN d.weights =
                  [i \in 1..Len(forest.terminal_set) |->
                      Len(forest.operator_set)]
                  \o [i \in 1..Len(forest.operator_set) |->
                         Len(forest.terminal_set)]
          ELSE Len(d.weights) = Len(forest.terminal_set)

\* C22: a tree.eval() that supplies no binding, made after the evaluations
\* with bindings have returned, raises the binding error and never returns
\* a value computed from what an earlier call bound.
C22_BindingIsTransient ==
    \A w \in Workers :
        (~ev[w].kwargs /\ ev[w].pc # "read") =>
            /\ ev[w].err = "InvalidVariableBindingException"
            /\ ev[w].later = <<>>

\* C23: the Raw fitness of an individual that holds no Variable, trivial
\* individuals being disallowed, is the sum of the errors of the cases plus
\* max_fitness once (minus max_fitness once when maximizing), whatever the
\* number of cases; the Raw fitness of any other individual is the sum of
\* the errors.
C23_PenaltyIsAddedOnce ==
    (gop.op = "raw_fitness" /\ gop.pc = "returned") =>
       LET individual == forest.population[gop.parents[1]]
           cases == gop.fit.cases
           errors == [k \in DOMAIN cases |->
                        error(eval_tree(individual, cases[k].x),
                              cases[k].target)]
       IN  gop.fit.raw =
              SeqSum(errors)
              + (IF ~is_parameterized(individual) /\ ~gop.fit.allow_trivial
                 THEN IF gop.fit.objective = "MINIMISE" THEN max_fitness
                      ELSE 0 - max_fitness
                 ELSE 0)

\* C24: the tree copy() returns has the shape and the atoms of the original
\* and evaluates as the original does for every binding, and it holds no
\* object of the original; after replace_node, a swap of nodes or a
\* permutation of children on the copy, the original has the shape it had
\* and evaluates as it did.
C24_CopyIsDeep ==
    /\ (gop.op = "reproduce" /\ gop.pc = "returned") =>
          LET original == forest.population[gop.parents[1]]
              copy     == gop.offspring[1]
          IN  /\ shape(copy) = shape(original)
              /\ \A b \in 0..MaxVal :
                    eval_tree(copy, b) = eval_tree(original, b)
              /\ objects(copy) \cap objects(original) = {}
    /\ (/\ gop.op \in {"mutation", "editing", "inversion", "permutation"}
        /\ gop.pc = "returned") =>
          LET original == forest.population[gop.parents[1]]
              was      == gop.before[gop.parents[1]]
          IN  /\ shape(original) = shape(was)
              /\ \A b \in 0..MaxVal :
                    eval_tree(original, b) = eval_tree(was, b)

\* an inversion swapped two nodes of the copy of a tree, one of them below
\* a node that is not the root
C24_Witness ==
    /\ gop.op = "inversion" /\ gop.pc = "returned"
    /\ get_depth(gop.before[gop.parents[1]]) = 3
    /\ shape(gop.offspring[1]) # shape(gop.before[gop.parents[1]])

\* C25: _swap_nodes(a, b) on two different nodes that are not the root and
\* do not descend from one another leaves a, with its subtree, in the place
\* b had under its parent and b in the place a had, also under one parent;
\* the same call once more gives back the tree as it was; _swap_nodes(a, a)
\* leaves the tree as it was.
C25_SwapIsAnInvolution ==
    (gop.op \in {"inversion", "swap_nodes"} /\ gop.pc = "returned") =>
       LET copy  == clone(gop.parents[1], 1)
           after == gop.offspring[1]
           a     == gop.node[1]
           b     == gop.node[2]
       IN  IF gop.op = "swap_nodes" \/ a = b THEN after = copy
           ELSE /\ lineage(after, a) = lineage(copy, b)
                /\ lineage(after, b) = lineage(copy, a)
                /\ node_at(after, a) = node_at(copy, a)
                /\ node_at(after, b) = node_at(copy, b)
                /\ node_count(after) = node_count(copy)

\* two children of one node were swapped and swapped back
C25_Witness ==
    /\ gop.op = "swap_nodes" /\ gop.pc = "returned"
    /\ gop.node[1] # gop.node[2]
    /\ lineage(gop.offspring[1], gop.node[1])[1]
          = lineage(gop.offspring[1], gop.node[2])[1]
    /\ shape(node_at(gop.offspring[1], gop.node[1]))
          # shape(node_at(gop.offspring[1], gop.node[2]))

\* the number of nodes of a tree that are not terminals
non_terminals(tree) == Len(linearize(tree, FALSE, TRUE, FALSE))

\* C26: Editing applied again and again to a tree that holds no Variable
\* changes it at most as many times as the tree has non-terminal nodes, each
\* change leaving fewer non-terminal nodes, and ends with one Constant node
\* (a new one, or the Constant 1 the tree was) whose value is the value of
\* the tree; an Editing of a tree that has no
\* non-terminal node without a Variable below it returns the copy as it is.
C26_EditingFoldsToAConstant ==
    /\ (/\ gop.op = "simplify" /\ gop.pc \in {"loop", "returned"}
        /\ ~is_parameterized(gop.before[gop.parents[1]])) =>
          LET original == gop.before[gop.parents[1]]
              now      == gop.offspring[1]
          IN  /\ gop.pc = "loop" =>
                    /\ gop.counter <= non_terminals(original)
                    /\ non_terminals(now)
                          <= non_terminals(original) - gop.counter
              /\ gop.pc = "returned" =>
                    /\ gop.counter - 1 <= non_terminals(original)
                    /\ now.atom \in {"const", "one"} /\ now.children = <<>>
                    /\ eval_tree(now, None) = eval_tree(original, None)
    /\ (/\ gop.op = "editing" /\ gop.pc = "returned"
        /\ linearize(gop.before[gop.parents[1]], FALSE, TRUE, TRUE) = <<>>) =>
          shape(gop.offspring[1]) = shape(gop.before[gop.parents[1]])

\* a tree without a Variable was folded in two changes, the inner operator
\* first
C26_Witness ==
    /\ gop.op = "simplify" /\ gop.pc = "returned"
    /\ ~is_parameterized(gop.before[gop.parents[1]])
    /\ non_terminals(gop.before[gop.parents[1]]) >= 2
    /\ gop.counter = 3

\* C27: crossover makes at most timeout = 10 passes, each over two selected
\* parents and one node of each copy; a pair it returns from a pass is
\* within the depth bound, and after ten passes that failed it returns two
\* trees with the shape of one member of the population that share no node
\* with each other.
C27_CrossoverEndsInTenPasses ==
    gop.op = "crossover" =>
       /\ gop.counter <= timeout
       /\ gop.pc = "loop" => gop.counter >= 1
       /\ (gop.pc = "returned" /\ gop.counter < timeout) =>
             /\ Len(gop.parents) = 2 /\ Len(gop.offspring) = 2
             /\ \A j \in 1..2 : get_depth(gop.offspring[j]) <= gop.max_depth
       /\ (gop.pc = "returned" /\ gop.counter = timeout) =>
             /\ Len(gop.parents) = 1 /\ Len(gop.offspring) = 2
             /\ \A j \in 1..2 :
                   shape(gop.offspring[j])
                      = shape(forest.population[gop.parents[1]])
             /\ objects(gop.offspring[1]) \cap objects(gop.offspring[2]) = {}

\* ten passes failed and crossover returned two copies of the deeper tree
C27_Witness ==
    /\ gop.op = "crossover" /\ gop.pc = "returned"
    /\ gop.counter = timeout
    /\ get_depth(gop.offspring[1]) = MaxDepth

\* C28: the pair _random_node_pair hands to Inversion is the root twice, or
\* two nodes below the root neither of which lies in the subtree of the
\* other; and the tree Inversion returns is made of the nodes of the copy,
\* every one of them in one place.
C28_InversionSwapsIndependentNodes ==
    (gop.op = "inversion" /\ gop.pc = "returned") =>
       LET copy  == clone(gop.parents[1], 1)
           after == gop.offspring[1]
           n1    == node_at(copy, gop.node[1])
           n2    == node_at(copy, gop.node[2])
       IN  /\ \/ n1 = copy /\ n2 = copy
              \/ /\ n1.obj # copy.obj /\ n2.obj # copy.obj
                 /\ n1.obj # n2.obj => /\ n1.obj \notin objects(n2)
                                       /\ n2.obj \notin objects(n1)
           /\ objects(after) = objects(copy)
           /\ node_count(after) = Cardinality(objects(after))

\* Inversion swapped a leaf with an operator node of another level
C28_Witness ==
    /\ gop.op = "inversion" /\ gop.pc = "returned"
    /\ gop.node[1] # gop.node[2]
    /\ depth_of(gop.offspring[1], gop.node[1])
          # depth_of(gop.offspring[1], gop.node[2])

\* the depth of the deepest tree of a chunk
deepest(chunk) ==
    CHOOSE d \in {get_depth(chunk[k]) : k \in DOMAIN chunk} :
       \A k \in DOMAIN chunk : get_depth(chunk[k]) <= d

\* C29 as stated: under reproduction, crossover and mutation every tree of
\* every generation, and every tree collected for the next one, has at most
\* the depth the first population was generated with; a mutated tree is no
\* deeper than its parent, whatever crossover returns is within the bound
\* its first pass set, and no offspring is deeper than the deepest tree of
\* the chunk the operator was handed.
C29_CrossoverWithinItsFirstBound ==
    /\ \A k \in DOMAIN forest.population :
          get_depth(forest.population[k]) <= MaxDepth
    /\ \A k \in DOMAIN forest.new_population :
          get_depth(forest.new_population[k]) <= MaxDepth
    /\ (gop.op \in default_set /\ gop.pc = "returned") =>
          /\ \A j \in DOMAIN gop.offspring :
                get_depth(gop.offspring[j]) <= deepest(gop.before)
          /\ gop.op = "mutation" =>
                get_depth(gop.offspring[1])
                   <= get_depth(gop.before[gop.parents[1]])
          /\ gop.op = "crossover" =>
                /\ gop.max_depth <= deepest(gop.before)
                /\ \A j \in DOMAIN gop.offspring :
                      get_depth(gop.offspring[j]) <= gop.max_depth

\* C29, amended: as above, but only the children crossover returns from a
\* pass are within the bound its first pass set; after ten passes that
\* failed it returns two copies of a member of the chunk, which have the
\* depth of that member.
C29_DepthNeverGrows ==
    /\ \A k \in DOMAIN forest.population :
          get_depth(forest.population[k]) <= MaxDepth
    /\ \A k \in DOMAIN forest.new_population :
          get_depth(forest.new_population[k]) <= MaxDepth
    /\ (gop.op \in default_set /\ gop.pc = "returned") =>
          /\ \A j \in DOMAIN gop.offspring :
                get_depth(gop.offspring[j]) <= deepest(gop.before)
          /\ gop.op = "mutation" =>
                get_depth(gop.offspring[1])
                   <= get_depth(gop.before[gop.parents[1]])
          /\ gop.op = "crossover" =>
                /\ gop.max_depth <= deepest(gop.before)
                /\ \A j \in DOMAIN gop.offspring :
                      IF gop.counter < timeout
                      THEN get_depth(gop.offspring[j]) <= gop.max_depth
                      ELSE get_depth(gop.offspring[j])
                              = get_depth(gop.before[gop.parents[1]])

\* in a later generation, which holds a tree that is one terminal, a
\* mutation below the root returned a new tree of the greatest depth
C29_Witness ==
    /\ Len(forest.population) = 2
    /\ get_depth(forest.population[1]) = 1
    /\ gop.op = "mutation" /\ gop.pc = "returned"
    /\ gop.node # 3 * Block + 1
    /\ get_depth(gop.offspring[1]) = MaxDepth
    /\ shape(gop.offspring[1]) # shape(gop.before[gop.parents[1]])

=============================================================================
